---- MODULE Spec2Model ----
(***************************************************************************)
(* A model of the chat-completion routers of this repository:              *)
(*   - the Qwen router          (src/ollama-mock.js, lines 1-779),         *)
(*   - the DeepSeek router      (src/ollama-mock.js, lines 782-1730),      *)
(*   - the DeepSeek live router (src/next.config.js),                      *)
(*   - the Vercel gateway server (src/vercel.js),                          *)
(*   - the Cerebras server      (src/unnamed/part_000).                    *)
(* Each router is its own server process; Init picks which one runs.       *)
(* A request handler is modelled as one action per stretch of code between *)
(* two suspension points (await / event callback).                         *)
(***************************************************************************)
EXTENDS Integers, Sequences, FiniteSets, TLC

VARIABLES
    server,      \* which server process this run is: "qwen", "deepseek",
                 \* "live", "vercel" or "cerebras"
    quota,       \* how many requests, upstream events and cut lines this run has
    pc,          \* pc[r]: where request r's handler is suspended
    req,         \* req[r]: the request body fields the handler reads
    res,         \* res[r]: the HTTP response object of request r
    out,         \* out[r]: the frames res.write put on the wire, in order
    buffer,      \* Qwen: `buffer` of the request's closure (unterminated line)
    isInThinkingPhase, \* Qwen: `isInThinkingPhase` of the request's closure
    conversationState, \* Qwen: the Map `conversationState`, by conversation key
    payload,     \* Qwen: the payload request r posted to the upstream
    upSent,      \* the upstream events of r's upstream response, in arrival order
    upHalf,      \* Qwen: how much of the last upstream line was delivered
    upSplits,    \* Qwen: how many upstream lines the transport has cut in two
    upFail,      \* upFail[r]: how r's upstream call failed ("none" when it did not)
    chatInput,   \* browser: the text in the page's #chat-input
    deepThink,   \* browser: whether the page's DeepThink (R1) button is active
    turns,       \* browser: the completion requests the page has made, by requestId
    onResponse,  \* requests whose responseHandler is registered on globalClient
    onData,      \* requests whose dataReceivedHandler is registered (live router)
    onFinished,  \* requests whose loadingFinishedHandler is registered
    eventStreamRequests, \* eventStreamRequests[r]: the Map of r's closure, as a set
    cdpQueue,    \* the Network.getResponseBody commands not yet answered, in order
    responseStarted,     \* live router: `responseStarted` of r's closure
    promise,     \* promise[r]: the promise of r's sendPromptToDeepSeek call
    isComplete,  \* `isComplete` of r's sendPromptToDeepSeek call
    responseData, \* `responseData` of r's sendPromptToDeepSeek call
    stats,       \* Vercel: what the file vercelstats.txt holds
    statsCalls,  \* Vercel: number of updateStats calls so far (the clock of
                 \* the ids and timestamps of the logged requests)
    outputText,  \* Vercel: `outputText` of the request's handler
    timedOut,    \* requests made 30 seconds ago or earlier
    stale,       \* Qwen: conversation keys not used for longer than a max age
    disconnected \* requests whose caller has closed the connection

vars == <<server, quota, pc, req, res, out, buffer, isInThinkingPhase,
          conversationState, payload, upSent, upHalf, upSplits, upFail,
          chatInput, deepThink, turns, onResponse, onData, onFinished,
          eventStreamRequests, cdpQueue, responseStarted, promise,
          isComplete, responseData, stats, statsCalls, outputText,
          timedOut, stale, disconnected>>

\* What the world around the routers did besides sending upstream events.
envVars == <<timedOut, stale, disconnected>>

\* The locals of a sendPromptToDeepSeek call (non-streaming requests).
promiseVars == <<promise, isComplete, responseData>>

\* The state of the servers that call their upstream through an SDK.
sdkVars == <<stats, statsCalls, outputText>>

qwenVars == <<buffer, isInThinkingPhase, conversationState, payload, upHalf,
              upSplits>>
browserVars == <<chatInput, deepThink, turns, onResponse, onData, onFinished,
                 eventStreamRequests, cdpQueue, responseStarted>>

----------------------------------------------------------------------------
(* Bounds of the exploration *)

\* number of /v1/chat/completions requests a run may issue
NReq == 2
\* number of upstream events (lines of an upstream body) a run may deliver
MaxEvents == 3
\* number of upstream lines a run may deliver cut in two transport chunks
MaxSplits == 1
\* number of other outside events (time passing, a caller leaving) in a run
MaxExtras == 1

Req == 1..NReq

----------------------------------------------------------------------------
(* Values *)

\* The text of the i-th upstream event that carries text: texts are told apart
\* by their arrival index.
Tok(i) == <<"t1", "t2", "t3", "t4", "t5", "t6", "t7", "t8">>[i]

\* An upstream event: one `data:` line of an upstream SSE body, by what its
\* payload parses to.
\*   t = "delta"     Qwen: {"choices":[{"delta":{phase,content,status}}]}
\*   t = "nondelta"  valid JSON without a usable choices[0].delta
\*   t = "nochoice0" valid JSON whose choices array is empty
\*   t = "badjson"   a payload JSON.parse rejects
\*   t = "done"      the payload [DONE]
\*   t = "nl"        no event (the item is a line terminator)
Ev(t, phase, text, status) ==
    [t |-> t, phase |-> phase, text |-> text, status |-> status]

NoEvent == Ev("nl", "", <<>>, "")

\* The lines the Qwen upstream may send as its n-th event.
QwenEvents(n) ==
    { Ev("delta", ph, tx, st) :
        ph \in {"think", "answer"}, tx \in {<<>>, <<Tok(n)>>},
        st \in {"typing", "finished"} }
    \cup { Ev("delta", "", <<Tok(n)>>, "typing"),
           Ev("delta", "web_search", <<Tok(n)>>, "typing"),
           Ev("nondelta", "", <<>>, ""),
           Ev("nochoice0", "", <<>>, ""),
           Ev("badjson", "", <<>>, ""),
           Ev("done", "", <<>>, "") }

\* A unit of upstream bytes: part 1 is the head of event ev's line (it starts
\* with "data:"), part 2 the rest of that line, part 0 the character "\n".
\* Part 3 is a head that ends after the first bytes of a multi-byte character
\* of the event's text, part 4 the rest of the line from that character's
\* remaining bytes on.
Item(ev, part) == [ev |-> ev, part |-> part]
NL == Item(NoEvent, 0)

\* U+FFFD, which Buffer.toString() puts for bytes that are no whole character.
Replacement == "\\uFFFD"
\* The event's text with a character of it replaced.
Replaced(ev) == [ev EXCEPT !.text = @ \o <<Replacement>>]

\* chunk.toString(): the bytes of one transport chunk decoded as UTF-8 on
\* their own. The bytes of a character that the chunk holds only in part
\* decode to U+FFFD.
chunkToString(chunk) ==
    [i \in 1..Len(chunk) |->
        IF chunk[i].part = 3 THEN Item(Replaced(chunk[i].ev), 1)
        ELSE IF chunk[i].part = 4 THEN Item(Replaced(chunk[i].ev), 2)
        ELSE chunk[i]]

\* An outward frame: what one res.write call puts on the wire.
\*   kind "chunk": `data: ${JSON.stringify(chunk)}\n\n`
\*   kind "done" : the literal `data: [DONE]\n\n`
\*   kind "raw"  : upstream bytes forwarded unchanged
\* nl is the number of "\n" the write ends with; role "none" means the delta
\* has no role field; content is the delta's content as a list of pieces,
\* <<>> being the empty string, and hasContent tells whether the field exists.
Frame(kind, role, hasContent, content, finish, model, nl) ==
    [kind |-> kind, role |-> role, hasContent |-> hasContent,
     content |-> content, finish |-> finish, model |-> model, nl |-> nl]

Chunk(role, content, finish, model) ==
    Frame("chunk", role, TRUE, content, finish, model, 2)

\* delta: {} with finish_reason "stop"
StopChunk(model) == Frame("chunk", "none", FALSE, <<>>, "stop", model, 2)

DoneFrame == Frame("done", "none", FALSE, <<"data: [DONE]">>, "null", "", 2)

RawFrame(text, nl) == Frame("raw", "none", FALSE, text, "null", "", nl)

\* req.body?.model || dflt
ModelOr(r, dflt) == IF req[r].model = "" THEN dflt ELSE req[r].model

\* The response object: state "open" until res.end()/res.json(); status is the
\* HTTP status; json is the body res.json sent ("none" when it sent none);
\* sse is TRUE once Content-Type: text/event-stream was set.
\* late is TRUE once the handler wrote to, or answered, the response after it
\* had ended (such a call puts nothing on the wire).
\* content is choices[0].message.content of a completion object res.json
\* sent.
NewRes ==
    [state |-> "open", status |-> 200, json |-> "none", sse |-> FALSE,
     late |-> FALSE, content |-> <<>>]

\* res.status(code).json(body): sends the body and ends the response.
ResJson(rs, code, body) ==
    IF rs.state = "open"
    THEN [rs EXCEPT !.state = "ended", !.status = code, !.json = body,
                    !.sse = FALSE]
    ELSE [rs EXCEPT !.late = TRUE]

\* res.json({object: "chat.completion", ..., message: {role: "assistant",
\* content: response}}): sends the completion object and ends the response.
ResCompletion(rs, response) ==
    IF rs.state = "open"
    THEN [rs EXCEPT !.state = "ended", !.json = "completion",
                    !.content = response]
    ELSE [rs EXCEPT !.late = TRUE]

\* res.end()
ResEnd(rs) == [rs EXCEPT !.state = "ended"]

\* res.write(f) for each f of frames, in order: what is on the wire afterwards,
\* and the response object afterwards.
Written(o, rs, frames) == IF rs.state = "open" THEN o \o frames ELSE o
AfterWrite(rs, frames) ==
    IF rs.state = "open" \/ frames = <<>> THEN rs ELSE [rs EXCEPT !.late = TRUE]

----------------------------------------------------------------------------
(* The prompt of a request: `userMessage` of the three handlers *)

\* An element of req.body.messages: an object with role and content, or null.
Msg(role, content) == [isObject |-> TRUE, role |-> role, content |-> content]
NullMsg == [isObject |-> FALSE, role |-> "", content |-> ""]

\* req.body.messages: absent, a value that is no array, or an array.
NoMessages == [present |-> FALSE, isArray |-> FALSE, items |-> <<>>]
NotAnArray == [present |-> TRUE, isArray |-> FALSE, items |-> <<>>]
Messages(items) == [present |-> TRUE, isArray |-> TRUE, items |-> items]

\* The content of the user message a caller sends with request r.
PromptOf(r) == <<"prompt-1", "prompt-2", "prompt-3", "prompt-4">>[r]

\* The messages a caller may send with request r when the run lets it send
\* any: no array, an empty one, and arrays of one or two elements.
MessageLists(r) ==
    LET elems == {Msg("user", PromptOf(r)), Msg("user", "earlier"),
                  Msg("user", ""), Msg("assistant", "reply"), NullMsg}
    IN {NoMessages, NotAnArray, Messages(<<>>)}
       \cup {Messages(<<a>>) : a \in elems}
       \cup {Messages(<<a, b>>) : a, b \in elems}

\* [...messages].reverse().find((m) => m.role === "user"): the index of the
\* last element whose role is "user", 0 when find returns undefined, and -1
\* when the callback throws a TypeError (it reads `role` of null) on its way
\* from the end of the array.
RECURSIVE FindLastUser(_, _)
FindLastUser(items, i) ==
    IF i = 0 THEN 0
    ELSE IF ~items[i].isObject THEN -1
    ELSE IF items[i].role = "user" THEN i
    ELSE FindLastUser(items, i - 1)

\* let userMessage = "Hello"; if (Array.isArray(req.body?.messages)) { ...
\* if (lastUserMsg && lastUserMsg.content) userMessage = lastUserMsg.content }
\* threw is TRUE when the statement throws instead.
ExtractPrompt(messages) ==
    IF ~messages.isArray THEN [threw |-> FALSE, userMessage |-> "Hello"]
    ELSE LET k == FindLastUser(messages.items, Len(messages.items)) IN
         IF k = -1 THEN [threw |-> TRUE, userMessage |-> "Hello"]
         ELSE IF k = 0 \/ messages.items[k].content = ""
              THEN [threw |-> FALSE, userMessage |-> "Hello"]
         ELSE [threw |-> FALSE, userMessage |-> messages.items[k].content]

\* The messages the caller of request r may send in this run.
MessagesOf(r) ==
    IF quota.anyMessages THEN MessageLists(r)
    ELSE {Messages(<<Msg("user", PromptOf(r))>>)}

\* A request body with its messages.
Body(b, messages) ==
    [stream |-> b.stream, model |-> b.model, chat_id |-> b.chat_id,
     messages |-> messages]

----------------------------------------------------------------------------
(* The Qwen router: app.post("/v1/chat/completions") of src/ollama-mock.js *)

\* The profile's chat id, the conversation key of a request that names none.
QWEN_CHAT_ID == "profile-chat"

\* const chat_id = req.body?.chat_id || QWEN_CHAT_ID
ChatIdOf(body) == IF body.chat_id = "" THEN QWEN_CHAT_ID ELSE body.chat_id

ConversationKeys == {QWEN_CHAT_ID, "c2"}

\* A key the Map does not hold.
Absent == [present |-> FALSE, parent_id |-> "null", nextChildFid |-> 0]

\* buffer.split("\n"): the segments between the line terminators, the last one
\* being what follows the last terminator.
RECURSIVE SplitNL(_, _, _)
SplitNL(items, cur, acc) ==
    IF items = <<>> THEN Append(acc, cur)
    ELSE IF Head(items).part = 0
         THEN SplitNL(Tail(items), <<>>, Append(acc, cur))
         ELSE SplitNL(Tail(items), Append(cur, Head(items)), acc)

\* line.trim().startsWith("data:")  (false of the empty line too)
StartsWithData(line) == line # <<>> /\ line[1].part = 1

\* The line holds both halves of one event's line: its payload is complete.
IsWhole(line) ==
    /\ Len(line) = 2
    /\ line[1].part = 1 /\ line[2].part = 2
    /\ line[1].ev = line[2].ev

\* JSON.parse(jsonStr) returns (it throws on [DONE], on a payload that is not
\* JSON and on a payload cut short).
ParsesOk(line) ==
    IsWhole(line) /\ line[1].ev.t \in {"delta", "nondelta", "nochoice0"}

\* jsonStr === "[DONE]"
IsDoneStr(line) == IsWhole(line) /\ line[1].ev.t = "done"

\* The bytes of a line, as pieces.
RawText(line) ==
    IF IsDoneStr(line) THEN <<"data: [DONE]">>
    ELSE IF IsWhole(line) THEN <<"data:", line[1].ev.t>> \o line[1].ev.text
    ELSE [i \in 1..Len(line) |->
            IF line[i].part = 1 THEN "data:..." ELSE "...rest"]

\* finish_reason: delta.status === "finished" ? "stop" : null
FinishReasonStuck(status) == "null"
FinishReason(status) == IF status = "finished" THEN "stop" ELSE "null"

\* if (delta.status === "finished") in the think branch: the footer is due
FooterDueNever(ev) == FALSE
FooterDue(ev) == ev.status = "finished"

thinkingHeader(r) ==
    Chunk("assistant", <<"\n<thinking>\n">>, "null", ModelOr(r, "qwen3-normal"))
thinkingChunk(r, ev) == Chunk("none", ev.text, "null", ModelOr(r, "qwen3"))
thinkingFooter(r) ==
    Chunk("none", <<"\n</thinking>\n\n">>, "null", ModelOr(r, "qwen3"))
\* role: delta.role || "assistant", content: delta.content || ""
openaiChunk(r, ev) ==
    Chunk("assistant", ev.text, FinishReason(ev.status), ModelOr(r, "qwen3"))

\* One pass of the body of `for (const line of lines)`; st.think is
\* isInThinkingPhase and st.w the frames written so far by this call.
QwenLine(r, line, st) ==
    IF ~StartsWithData(line) THEN st                          \* continue
    ELSE IF ~ParsesOk(line) \/ line[1].ev.t = "nochoice0"
    THEN \* JSON.parse threw, or json.choices[0].delta threw a TypeError:
         \* catch (e) { res.write(line + "\n") }
         [st EXCEPT !.w = Append(@, RawFrame(RawText(line), 1))]
    ELSE LET ev == line[1].ev IN
         IF ev.t = "delta" THEN
            IF ev.phase = "think" THEN
               LET s1 == IF ~st.think
                         THEN [think |-> TRUE,
                               w |-> Append(st.w, thinkingHeader(r))]
                         ELSE st
                   s2 == IF ev.text # <<>>
                         THEN [s1 EXCEPT !.w = Append(@, thinkingChunk(r, ev))]
                         ELSE s1
               IN  IF FooterDue(ev)
                   THEN [think |-> FALSE, w |-> Append(s2.w, thinkingFooter(r))]
                   ELSE s2
            ELSE IF ev.phase = "answer" \/ ev.phase = ""
            THEN [st EXCEPT !.w = Append(@, openaiChunk(r, ev))]
            ELSE st
         ELSE \* non-delta message
            IF IsDoneStr(line)
            THEN [st EXCEPT !.w = Append(@, DoneFrame)]
            ELSE st

RECURSIVE QwenLines(_, _, _)
QwenLines(r, lines, st) ==
    IF lines = <<>> THEN st
    ELSE QwenLines(r, Tail(lines), QwenLine(r, Head(lines), st))

\* Number of upstream events delivered so far, over all requests.
RECURSIVE SumLen(_, _)
SumLen(f, S) ==
    IF S = {} THEN 0
    ELSE LET x == CHOOSE y \in S : TRUE IN Len(f[x]) + SumLen(f, S \ {x})
EventsSent == SumLen(upSent, Req)

\* conversationState.set(conversation_key, {parent_id: null,
\* nextChildFid: null}): the session a first request creates.
NewSessionLinked == [present |-> TRUE, parent_id |-> "x", nextChildFid |-> 0]
NewSession == [present |-> TRUE, parent_id |-> "null", nextChildFid |-> 0]

\* The request bodies a client may post.
QwenBodies ==
    [stream : BOOLEAN, model : {"", "qwen3-thinking"}, chat_id : {"", "c2"}]

\* A client posts a request: the handler runs up to `await fetch(...)`.
QwenRequest(r) ==
    /\ server = "qwen"
    /\ pc[r] = "idle"
    /\ r <= quota.reqs
    /\ \A q \in Req : q < r => pc[q] # "idle"
    /\ \E body \in QwenBodies, messages \in MessagesOf(r) :
         LET key == ChatIdOf(body)
             old == conversationState[key]
             state == IF old.present THEN old ELSE NewSession
             prompt == ExtractPrompt(messages)
         IN /\ req' = [req EXCEPT ![r] = Body(body, messages)]
            /\ IF prompt.threw
               THEN \* The TypeError leaves the async handler, which has no
                    \* try around this statement: the request stays
                    \* unanswered, or the framework answers 500, as the
                    \* Express version has it.
                    /\ \E answered \in BOOLEAN :
                          res' = IF answered
                                 THEN [res EXCEPT ![r] =
                                         ResJson(@, 500, "Internal Server Error")]
                                 ELSE res
                    /\ pc' = [pc EXCEPT ![r] = "failed"]
                    /\ UNCHANGED <<payload, conversationState, stale>>
               ELSE /\ payload' = [payload EXCEPT ![r] =
                          [chat_id |-> key, parent_id |-> state.parent_id,
                           thinking_enabled |-> (body.model = "qwen3-thinking"),
                           content |-> prompt.userMessage]]
                    /\ conversationState' = [conversationState EXCEPT ![key] =
                          [state EXCEPT !.nextChildFid = r]]
                    /\ stale' = stale \ {key}
                    /\ pc' = [pc EXCEPT ![r] = "fetch"]
                    /\ UNCHANGED res
    /\ UNCHANGED <<server, quota, sdkVars, promiseVars, timedOut, disconnected, out, buffer,
                   isInThinkingPhase, upSent, upHalf, upSplits, upFail,
                   browserVars>>

\* fetch rejects (network failure): the outer catch answers 500.
QwenFetchThrows(r) ==
    /\ server = "qwen" /\ pc[r] = "fetch"
    /\ res' = [res EXCEPT ![r] = ResJson(@, 500, "Internal proxy error")]
    /\ upFail' = [upFail EXCEPT ![r] = "exception"]
    /\ pc' = [pc EXCEPT ![r] = "done"]
    /\ UNCHANGED <<server, quota, sdkVars, promiseVars, envVars, req, out, buffer, isInThinkingPhase,
                   conversationState, payload, upSent, upHalf, upSplits,
                   browserVars>>

\* !qwenRes.ok
QwenNotOk(r) ==
    /\ server = "qwen" /\ pc[r] = "fetch"
    /\ res' = [res EXCEPT ![r] = ResJson(@, 500, "Qwen failed")]
    /\ upFail' = [upFail EXCEPT ![r] = "status"]
    /\ pc' = [pc EXCEPT ![r] = "done"]
    /\ UNCHANGED <<server, quota, sdkVars, promiseVars, envVars, req, out, buffer, isInThinkingPhase,
                   conversationState, payload, upSent, upHalf, upSplits,
                   browserVars>>

\* qwenRes.ok: the SSE headers are set and the body handlers registered.
QwenOk(r) ==
    /\ server = "qwen" /\ pc[r] = "fetch"
    /\ res' = [res EXCEPT ![r].sse = TRUE]
    /\ buffer' = [buffer EXCEPT ![r] = <<>>]
    /\ isInThinkingPhase' = [isInThinkingPhase EXCEPT ![r] = FALSE]
    /\ pc' = [pc EXCEPT ![r] = "stream"]
    /\ UNCHANGED <<server, quota, sdkVars, promiseVars, envVars, req, out, conversationState, payload, upSent,
                   upHalf, upSplits, upFail,
                   browserVars>>

\* qwenRes.body.on("data", chunk => ...) for one transport chunk.
QwenOnData(r, chunk) ==
    LET segs == SplitNL(buffer[r] \o chunkToString(chunk), <<>>, <<>>)
        lines == SubSeq(segs, 1, Len(segs) - 1)
        st == QwenLines(r, lines,
                        [think |-> isInThinkingPhase[r], w |-> <<>>])
    IN /\ buffer' = [buffer EXCEPT ![r] = segs[Len(segs)]]
       /\ isInThinkingPhase' = [isInThinkingPhase EXCEPT ![r] = st.think]
       /\ out' = [out EXCEPT ![r] = @ \o st.w]

\* The upstream delivers a whole event, `data: ...\n\n`, in one chunk.
QwenDataWhole(r) ==
    /\ server = "qwen" /\ pc[r] = "stream" /\ upHalf[r] = "none"
    /\ EventsSent < quota.events /\ Len(upSent[r]) < quota.perReq
    /\ \E ev \in QwenEvents(EventsSent + 1) :
         /\ QwenOnData(r, <<Item(ev, 1), Item(ev, 2), NL, NL>>)
         /\ upSent' = [upSent EXCEPT ![r] = Append(@, ev)]
    /\ UNCHANGED <<server, quota, sdkVars, promiseVars, envVars, pc, req, res, conversationState, payload, upHalf, upSplits,
                   upFail,
                   browserVars>>

\* The transport cuts an event's line in two: this chunk ends inside the
\* line, between two characters or (when the line holds text) between the
\* bytes of one character.
QwenDataHead(r) ==
    /\ server = "qwen" /\ pc[r] = "stream" /\ upHalf[r] = "none"
    /\ EventsSent < quota.events /\ Len(upSent[r]) < quota.perReq
    /\ upSplits < quota.splits
    /\ \E ev \in QwenEvents(EventsSent + 1) :
         \E inChar \in (IF ev.text = <<>> THEN {FALSE} ELSE BOOLEAN) :
            /\ QwenOnData(r, <<Item(ev, IF inChar THEN 3 ELSE 1)>>)
            /\ upSent' = [upSent EXCEPT ![r] = Append(@, ev)]
            /\ upHalf' = [upHalf EXCEPT ![r] =
                             IF inChar THEN "cut" ELSE "head"]
    /\ upSplits' = upSplits + 1
    /\ UNCHANGED <<server, quota, sdkVars, promiseVars, envVars, pc, req, res, conversationState, payload, upFail,
                   browserVars>>

\* The rest of the cut line arrives, with the event's terminators or (the
\* upstream's last bytes) without any.
QwenDataTail(r) ==
    /\ server = "qwen" /\ pc[r] = "stream" /\ upHalf[r] \in {"head", "cut"}
    /\ LET ev == upSent[r][Len(upSent[r])]
           rest == Item(ev, IF upHalf[r] = "cut" THEN 4 ELSE 2)
       IN
         \E terminated \in BOOLEAN :
            /\ QwenOnData(r, IF terminated THEN <<rest, NL, NL>>
                                           ELSE <<rest>>)
            /\ upHalf' = [upHalf EXCEPT ![r] =
                             IF terminated THEN "none" ELSE "whole"]
    /\ UNCHANGED <<server, quota, sdkVars, promiseVars, envVars, pc, req, res, conversationState, payload, upSent,
                   upSplits, upFail,
                   browserVars>>

\* qwenRes.body.on("end")
QwenOnEnd(r) ==
    /\ server = "qwen" /\ pc[r] = "stream"
    /\ out' = [out EXCEPT ![r] =
                 IF StartsWithData(buffer[r]) /\ ParsesOk(buffer[r])
                 THEN Append(@, RawFrame(RawText(buffer[r]), 0))
                 ELSE @]
    /\ res' = [res EXCEPT ![r] = ResEnd(@)]
    /\ pc' = [pc EXCEPT ![r] = "done"]
    /\ UNCHANGED <<server, quota, sdkVars, promiseVars, envVars, req, buffer, isInThinkingPhase, conversationState,
                   payload, upSent, upHalf, upSplits, upFail,
                   browserVars>>

\* qwenRes.body.on("error")
QwenOnError(r) ==
    /\ server = "qwen" /\ pc[r] = "stream"
    /\ res' = [res EXCEPT ![r] = ResEnd(@)]
    /\ upFail' = [upFail EXCEPT ![r] = "stream"]
    /\ pc' = [pc EXCEPT ![r] = "done"]
    /\ UNCHANGED <<server, quota, sdkVars, promiseVars, envVars, req, out, buffer, isInThinkingPhase,
                   conversationState, payload, upSent, upHalf, upSplits,
                   browserVars>>

NextQwen ==
    \E r \in Req :
        \/ QwenRequest(r)
        \/ QwenFetchThrows(r)
        \/ QwenNotOk(r)
        \/ QwenOk(r)
        \/ QwenDataWhole(r)
        \/ QwenDataHead(r)
        \/ QwenDataTail(r)
        \/ QwenOnEnd(r)
        \/ QwenOnError(r)

----------------------------------------------------------------------------
(* The browser the DeepSeek routers drive: globalPage and globalClient *)

ThinkingElapsed == "response/thinking_elapsed_secs"

\* The lines the DeepSeek upstream may send as its n-th event: t = "v" is
\* {"v": ..., "p": ...} with phase holding p, status holding typeof v and text
\* holding v when it is a string.
DeepSeekEvents(n) ==
    { Ev("v", "", <<Tok(n)>>, "string"),
      Ev("v", "response/content", <<Tok(n)>>, "string"),
      Ev("v", "", <<>>, "string"),
      Ev("v", "", <<>>, "object"),
      Ev("v", ThinkingElapsed, <<>>, "number"),
      Ev("badjson", "", <<>>, ""),
      Ev("done", "", <<>>, "") }

\* The prompt of request r (userMessage), and the text each router types
\* after it (less the character Backspace removes).
UserMessage(r) == ExtractPrompt(req[r].messages).userMessage
TypedText(r) ==
    IF server = "live" THEN " ok"
    ELSE IF req[r].stream THEN "second part of the promp"
    ELSE " first part of the promp"

RECURSIVE SumBodies(_)
SumBodies(ts) == IF ts = <<>> THEN 0 ELSE Len(Head(ts).body) + SumBodies(Tail(ts))

\* A turn of the page is in progress: its completion request was made and its
\* response has not finished loading.
InProgress(rid) == turns[rid].phase # "finished"

\* globalClient.off(...) of every handler request r registered
HandlersOff(r) ==
    /\ onResponse' = onResponse \ {r}
    /\ onData' = onData \ {r}
    /\ onFinished' = onFinished \ {r}

\* The requests of set S in ascending order.
RECURSIVE InOrder(_)
InOrder(S) ==
    IF S = {} THEN <<>>
    ELSE LET m == CHOOSE x \in S : \A y \in S : x <= y
         IN <<m>> \o InOrder(S \ {m})

\* The listeners of set S that know requestId rid.
Listening(S, rid) == {r \in S : rid \in eventStreamRequests[r]}

\* globalClient.send("Network.getResponseBody", {requestId}) by the handlers
\* of the requests rs, each then suspended on its await.
GetResponseBody(rs, rid, kind) ==
    [i \in 1..Len(rs) |-> [r |-> rs[i], rid |-> rid, kind |-> kind]]

\* Network.responseReceived for the page's completion request rid: every
\* registered responseHandler runs (the URL and content type match).
NetResponseReceived(rid) ==
    /\ server \in {"deepseek", "live"}
    /\ rid \in DOMAIN turns /\ turns[rid].phase = "sent"
    /\ turns' = [turns EXCEPT ![rid].phase = "open"]
    /\ eventStreamRequests' =
         [r \in Req |-> IF r \in onResponse
                        THEN eventStreamRequests[r] \cup {rid}
                        ELSE eventStreamRequests[r]]
    /\ UNCHANGED <<server, quota, sdkVars, promiseVars, envVars, pc, req, res, out, qwenVars, upSent, upFail,
                   chatInput, deepThink, onResponse, onData, onFinished,
                   cdpQueue, responseStarted>>

\* The upstream sends one more line of the response body; Network.dataReceived
\* fires and every registered dataReceivedHandler that knows rid asks for the
\* response body.
NetDataReceived(rid) ==
    /\ server \in {"deepseek", "live"}
    /\ rid \in DOMAIN turns /\ turns[rid].phase = "open"
    /\ SumBodies(turns) < quota.events
    /\ \E ev \in DeepSeekEvents(SumBodies(turns) + 1) :
         turns' = [turns EXCEPT ![rid].body = Append(@, ev)]
    /\ cdpQueue' = cdpQueue \o
         GetResponseBody(InOrder(Listening(onData, rid)), rid, "data")
    /\ UNCHANGED <<server, quota, sdkVars, promiseVars, envVars, pc, req, res, out, qwenVars, upSent, upFail,
                   chatInput, deepThink, onResponse, onData, onFinished,
                   eventStreamRequests, responseStarted>>

----------------------------------------------------------------------------
(* The DeepSeek routers: app.post("/v1/chat/completions") of the second     *)
(* program of src/ollama-mock.js ("deepseek") and of src/next.config.js     *)
(* ("live")                                                                 *)

\* json.v && typeof json.v === "string"
IsText(ev) == ev.t = "v" /\ ev.status = "string" /\ ev.text # <<>>

\* const isThinkingModel = model === "deepseek-r1-thinking"
IsThinkingModel(r) == req[r].model = "deepseek-r1-thinking"

\* `catch {}` inside the loop over the lines: JSON.parse threw on a line, and
\* the loop goes on with the lines after it.
AfterCatchBreak(rest) == <<>>
AfterCatch(rest) == rest

\* The two `for (const line of lines)` loops of loadingFinishedHandler; st
\* holds inThinkingPhase, thinkingTokens and answerTokens.
RECURSIVE DSParse(_, _, _)
DSParse(lines, thinkingModel, st) ==
    IF lines = <<>> THEN st
    ELSE LET ev == Head(lines)
             rest == Tail(lines)
         IN IF ev.t = "done" THEN st                               \* break
            ELSE IF ev.t = "badjson"
                 THEN DSParse(AfterCatch(rest), thinkingModel, st)
            ELSE IF thinkingModel
                 THEN IF ev.phase = ThinkingElapsed
                      THEN DSParse(rest, thinkingModel,
                                   [st EXCEPT !.inThinkingPhase = FALSE])
                      ELSE IF st.inThinkingPhase /\ IsText(ev)
                      THEN DSParse(rest, thinkingModel,
                                   [st EXCEPT !.thinkingTokens = @ \o ev.text])
                      ELSE IF ~st.inThinkingPhase /\ IsText(ev)
                      THEN DSParse(rest, thinkingModel,
                                   [st EXCEPT !.answerTokens = @ \o ev.text])
                      ELSE DSParse(rest, thinkingModel, st)
            ELSE IF IsText(ev)
                 THEN DSParse(rest, thinkingModel,
                              [st EXCEPT !.answerTokens = @ \o ev.text])
                 ELSE DSParse(rest, thinkingModel, st)

\* "Compose output for Copilot Chat"
DSOutput(thinkingModel, st) ==
    (IF thinkingModel /\ st.thinkingTokens # <<>>
     THEN <<"<thinking>\n">> \o st.thinkingTokens \o <<"\n</thinking>\n\n">>
     ELSE <<>>)
    \o st.answerTokens

\* "Send tokens in OpenAI streaming format (simulate as one chunk)": the write
\* of the chunk that carries the role and the whole output, empty or not.
DSContentIfAny(r, output) ==
    IF output = <<>> THEN <<>>
    ELSE <<Chunk("assistant", output, "null", ModelOr(r, "deepseek-r1"))>>
DSContent(r, output) ==
    <<Chunk("assistant", output, "null", ModelOr(r, "deepseek-r1"))>>

\* The frames loadingFinishedHandler writes for the response body `text`.
DSFrames(r, text) ==
    LET st == DSParse(text, IsThinkingModel(r),
                      [inThinkingPhase |-> TRUE, thinkingTokens |-> <<>>,
                       answerTokens |-> <<>>])
        model == ModelOr(r, "deepseek-r1")
    IN DSContent(r, DSOutput(IsThinkingModel(r), st))
       \o <<StopChunk(model), DoneFrame>>

\* The request bodies a client may post.
DSBodies ==
    [stream : BOOLEAN, model : {"", "deepseek-r1-thinking"}, chat_id : {""}]

\* The streaming branch up to its first await: the SSE headers are set and the
\* handlers registered on globalClient.
StreamSetup(r) ==
    /\ res' = [res EXCEPT ![r].sse = TRUE]
    /\ onResponse' = onResponse \cup {r}
    /\ onFinished' = onFinished \cup {r}
    /\ onData' = IF server = "live" THEN onData \cup {r} ELSE onData
    /\ pc' = [pc EXCEPT ![r] = "i_wait"]
    /\ UNCHANGED promiseVars

\* The non-streaming branch: sendPromptToDeepSeek(userMessage) up to its first
\* await. The promise is created and the handlers registered on globalClient.
PromiseSetup(r) ==
    /\ promise' = [promise EXCEPT ![r] = "pending"]
    /\ onResponse' = onResponse \cup {r}
    /\ onFinished' = onFinished \cup {r}
    /\ pc' = [pc EXCEPT ![r] = "i_wait"]
    /\ UNCHANGED <<res, onData, isComplete, responseData>>

\* if (isStreaming) { ... } else { ... }
Setup(r) == IF req[r].stream THEN StreamSetup(r) ELSE PromiseSetup(r)

\* A client posts a request to the DeepSeek router: the handler runs up to
\* `await globalPage.evaluate(...)`, which looks for the DeepThink button.
DSRequest(r) ==
    /\ server = "deepseek"
    /\ pc[r] = "idle" /\ r <= quota.reqs
    /\ \A q \in Req : q < r => pc[q] # "idle"
    /\ \E body \in DSBodies, messages \in MessagesOf(r) :
         /\ body.stream \in quota.streams
         /\ req' = [req EXCEPT ![r] = Body(body, messages)]
         /\ IF ExtractPrompt(messages).threw
            THEN \* the handler's outer catch
                 /\ res' = [res EXCEPT ![r] =
                              ResJson(@, 500, "Internal proxy error")]
                 /\ pc' = [pc EXCEPT ![r] = "failed"]
            ELSE /\ pc' = [pc EXCEPT ![r] = "toggle"]
                 /\ UNCHANGED res
    /\ UNCHANGED <<server, quota, sdkVars, promiseVars, envVars, out, qwenVars, upSent, upFail,
                   browserVars>>

\* evaluate returns: the button was clicked (its state differed from the
\* model's), and the handler waits 300 ms.
DSToggleClicked(r) ==
    /\ server = "deepseek" /\ pc[r] = "toggle"
    /\ deepThink # IsThinkingModel(r)
    /\ deepThink' = IsThinkingModel(r)
    /\ pc' = [pc EXCEPT ![r] = "settle"]
    /\ UNCHANGED <<server, quota, sdkVars, promiseVars, envVars, req, res, out, qwenVars, upSent, upFail,
                   chatInput, turns, onResponse, onData, onFinished,
                   eventStreamRequests, cdpQueue, responseStarted>>

\* evaluate returns false or null (the button was in the wanted state, or was
\* not found) or throws (caught and logged): the handler goes on at once.
DSToggleNoClick(r) ==
    /\ server = "deepseek" /\ pc[r] = "toggle"
    /\ Setup(r)
    /\ UNCHANGED <<server, quota, sdkVars, envVars, req, out, qwenVars, upSent, upFail,
                   chatInput, deepThink, turns, eventStreamRequests, cdpQueue,
                   responseStarted>>

\* The 300 ms have passed.
DSSettled(r) ==
    /\ server = "deepseek" /\ pc[r] = "settle"
    /\ Setup(r)
    /\ UNCHANGED <<server, quota, sdkVars, envVars, req, out, qwenVars, upSent, upFail,
                   chatInput, deepThink, turns, eventStreamRequests, cdpQueue,
                   responseStarted>>

\* A client posts a request to the live router.
LiveRequest(r) ==
    /\ server = "live"
    /\ pc[r] = "idle" /\ r <= quota.reqs
    /\ \A q \in Req : q < r => pc[q] # "idle"
    /\ \E body \in [stream : {TRUE}, model : {"", "deepseek-r1"},
                    chat_id : {""}],
          messages \in MessagesOf(r) :
         /\ req' = [req EXCEPT ![r] = Body(body, messages)]
         /\ IF ExtractPrompt(messages).threw
            THEN \* the handler's outer catch
                 /\ res' = [res EXCEPT ![r] =
                              ResJson(@, 500, "Internal proxy error")]
                 /\ pc' = [pc EXCEPT ![r] = "failed"]
                 /\ UNCHANGED <<onResponse, onData, onFinished, promiseVars>>
            ELSE StreamSetup(r)
    /\ UNCHANGED <<server, quota, sdkVars, envVars, out, qwenVars, upSent, upFail, chatInput,
                   deepThink, turns, eventStreamRequests, cdpQueue,
                   responseStarted>>

\* waitForSelector("#chat-input") and focus("#chat-input") return.
InjFocus(r) ==
    /\ server \in {"deepseek", "live"} /\ pc[r] = "i_wait"
    /\ pc' = [pc EXCEPT ![r] = IF server = "live" THEN "i_clear" ELSE "i_set"]
    /\ UNCHANGED <<server, quota, sdkVars, promiseVars, envVars, req, res, out, qwenVars, upSent, upFail,
                   browserVars>>

\* live router: evaluate(() => { el.value = ""; ... })
InjClear(r) ==
    /\ server = "live" /\ pc[r] = "i_clear"
    /\ chatInput' = <<>>
    /\ pc' = [pc EXCEPT ![r] = "i_set"]
    /\ UNCHANGED <<server, quota, sdkVars, promiseVars, envVars, req, res, out, qwenVars, upSent, upFail,
                   deepThink, turns, onResponse, onData, onFinished,
                   eventStreamRequests, cdpQueue, responseStarted>>

\* evaluate((msg) => { el.value = msg; ... }, userMessage)
InjSetValue(r) ==
    /\ server \in {"deepseek", "live"} /\ pc[r] = "i_set"
    /\ chatInput' = <<UserMessage(r)>>
    /\ pc' = [pc EXCEPT ![r] = "i_type"]
    /\ UNCHANGED <<server, quota, sdkVars, promiseVars, envVars, req, res, out, qwenVars, upSent, upFail,
                   deepThink, turns, onResponse, onData, onFinished,
                   eventStreamRequests, cdpQueue, responseStarted>>

\* globalPage.type("#chat-input", ...) (and keyboard.press("Backspace"))
InjType(r) ==
    /\ server \in {"deepseek", "live"} /\ pc[r] = "i_type"
    /\ chatInput' = Append(chatInput, TypedText(r))
    /\ pc' = [pc EXCEPT ![r] = "i_enter"]
    /\ UNCHANGED <<server, quota, sdkVars, promiseVars, envVars, req, res, out, qwenVars, upSent, upFail,
                   deepThink, turns, onResponse, onData, onFinished,
                   eventStreamRequests, cdpQueue, responseStarted>>

\* keyboard.press("Enter"): the page sends what the input holds as a new turn
\* and empties the input; the handler function returns.
InjEnter(r) ==
    /\ server \in {"deepseek", "live"} /\ pc[r] = "i_enter"
    /\ turns' = IF chatInput = <<>> THEN turns
                ELSE Append(turns, [owner |-> r, prompt |-> chatInput,
                                    body |-> <<>>, phase |-> "sent"])
    /\ chatInput' = <<>>
    /\ pc' = [pc EXCEPT ![r] = IF server = "deepseek" /\ ~req[r].stream
                                THEN "i_enter2" ELSE "returned"]
    /\ UNCHANGED <<server, quota, sdkVars, promiseVars, envVars, req, res, out, qwenVars, upSent, upFail,
                   deepThink, onResponse, onData, onFinished,
                   eventStreamRequests, cdpQueue, responseStarted>>

\* sendPromptToDeepSeek presses Enter a second time: the page sends what the
\* input holds by now, if anything. The function then sets its 30-second
\* timer and returns.
InjEnterAgain(r) ==
    /\ server = "deepseek" /\ pc[r] = "i_enter2"
    /\ turns' = IF chatInput = <<>> THEN turns
                ELSE Append(turns, [owner |-> r, prompt |-> chatInput,
                                    body |-> <<>>, phase |-> "sent"])
    /\ chatInput' = <<>>
    /\ pc' = [pc EXCEPT ![r] = "returned"]
    /\ UNCHANGED <<server, quota, sdkVars, promiseVars, envVars, req, res, out, qwenVars, upSent, upFail,
                   deepThink, onResponse, onData, onFinished,
                   eventStreamRequests, cdpQueue, responseStarted>>

\* reject(err) of r's promise, and what the request handler, suspended on
\* `await sendPromptToDeepSeek(...)`, does next: its outer catch answers 500.
\* A promise that has settled stays as it is.
Reject(r) ==
    IF promise[r] = "pending"
    THEN /\ promise' = [promise EXCEPT ![r] = "rejected"]
         /\ res' = [res EXCEPT ![r] = ResJson(@, 500, "Internal proxy error")]
    ELSE UNCHANGED <<promise, res>>

\* resolve(responseData) of r's promise, and what the request handler does
\* next: res.json of the completion object.
ResolveAgain(r, response) ==
    /\ promise' = [promise EXCEPT ![r] = "resolved"]
    /\ res' = [res EXCEPT ![r] = ResCompletion(@, response)]
Resolve(r, response) ==
    IF promise[r] = "pending"
    THEN /\ promise' = [promise EXCEPT ![r] = "resolved"]
         /\ res' = [res EXCEPT ![r] = ResCompletion(@, response)]
    ELSE UNCHANGED <<promise, res>>

\* One of the awaited page calls throws: the catch removes the handlers and
\* answers 500 (streaming) or rejects the promise (non-streaming; the timer
\* is set all the same).
InjThrows(r) ==
    /\ server \in {"deepseek", "live"}
    /\ pc[r] \in {"i_wait", "i_clear", "i_set", "i_type", "i_enter", "i_enter2"}
    /\ HandlersOff(r)
    /\ IF req[r].stream
       THEN /\ res' = [res EXCEPT ![r] =
                 ResJson(@, 500, "Could not interact with DeepSeek interface")]
            /\ UNCHANGED promise
       ELSE Reject(r)
    /\ upFail' = [upFail EXCEPT ![r] = "inject"]
    /\ pc' = [pc EXCEPT ![r] = "returned"]
    /\ UNCHANGED <<server, quota, sdkVars, isComplete, responseData, envVars, req, out, qwenVars, upSent, chatInput,
                   deepThink, turns, eventStreamRequests, cdpQueue,
                   responseStarted>>

\* Network.loadingFinished for the page's completion request rid: every
\* registered loadingFinishedHandler that knows rid runs. The DeepSeek
\* router's asks for the response body; the live router's ends the stream.
NetLoadingFinished(rid) ==
    /\ server \in {"deepseek", "live"}
    /\ rid \in DOMAIN turns /\ turns[rid].phase = "open"
    /\ turns' = [turns EXCEPT ![rid].phase = "finished"]
    /\ LET L == Listening(onFinished, rid) IN
       IF server = "deepseek"
       THEN /\ cdpQueue' = cdpQueue \o GetResponseBody(InOrder(L), rid, "finished")
            /\ UNCHANGED <<res, out, onResponse, onData, onFinished,
                           eventStreamRequests>>
       ELSE /\ out' = [r \in Req |->
                         IF r \in L
                         THEN Written(out[r], res[r],
                                <<StopChunk(ModelOr(r, "deepseek-r1")), DoneFrame>>)
                         ELSE out[r]]
            /\ res' = [r \in Req |->
                         IF r \in L
                         THEN ResEnd(AfterWrite(res[r], <<DoneFrame>>))
                         ELSE res[r]]
            /\ onResponse' = onResponse \ L
            /\ onData' = onData \ L
            /\ onFinished' = onFinished \ L
            /\ eventStreamRequests' =
                 [r \in Req |-> IF r \in L THEN eventStreamRequests[r] \ {rid}
                                ELSE eventStreamRequests[r]]
            /\ UNCHANGED cdpQueue
    /\ UNCHANGED <<server, quota, sdkVars, promiseVars, envVars, pc, req, qwenVars, upSent, upFail, chatInput,
                   deepThink, responseStarted>>

\* DeepSeek router: getResponseBody answers loadingFinishedHandler, which
\* writes the whole turn and ends the stream.
DSFinishBody ==
    /\ server = "deepseek"
    /\ cdpQueue # <<>> /\ Head(cdpQueue).kind = "finished"
    /\ req[Head(cdpQueue).r].stream
    /\ LET r == Head(cdpQueue).r
           rid == Head(cdpQueue).rid
           frames == DSFrames(r, turns[rid].body)
       IN /\ out' = [out EXCEPT ![r] = Written(@, res[r], frames)]
          /\ res' = [res EXCEPT ![r] = ResEnd(AfterWrite(@, frames))]
          /\ HandlersOff(r)
          /\ eventStreamRequests' =
               [eventStreamRequests EXCEPT ![r] = @ \ {rid}]
    /\ cdpQueue' = Tail(cdpQueue)
    /\ UNCHANGED <<server, quota, sdkVars, promiseVars, envVars, pc, req, qwenVars, upSent, upFail, chatInput,
                   deepThink, turns, responseStarted>>

\* DeepSeek router: getResponseBody fails; the catch ends the response.
DSFinishThrows ==
    /\ server = "deepseek"
    /\ cdpQueue # <<>> /\ Head(cdpQueue).kind = "finished"
    /\ req[Head(cdpQueue).r].stream
    /\ LET r == Head(cdpQueue).r
           rid == Head(cdpQueue).rid
       IN /\ res' = [res EXCEPT ![r] = ResEnd(@)]
          /\ upFail' = [upFail EXCEPT ![r] = "body"]
          /\ eventStreamRequests' =
               [eventStreamRequests EXCEPT ![r] = @ \ {rid}]
    /\ cdpQueue' = Tail(cdpQueue)
    /\ UNCHANGED <<server, quota, sdkVars, promiseVars, envVars, pc, req, out, qwenVars, upSent, chatInput,
                   deepThink, turns, onResponse, onData, onFinished,
                   responseStarted>>

\* text.split("\n").forEach of sendPromptToDeepSeek's loadingFinishedHandler:
\* what the lines add to responseData. A line whose v is a string adds v, and
\* adds it once more when its p is "response/content"; JSON.parse throws on
\* the other lines, [DONE] included, and the loop goes on.
RECURSIVE Collected(_)
Collected(lines) ==
    IF lines = <<>> THEN <<>>
    ELSE LET ev == Head(lines) IN
         (IF ev.t = "v" /\ ev.status = "string"
          THEN ev.text \o (IF ev.phase = "response/content" THEN ev.text
                           ELSE <<>>)
          ELSE <<>>)
         \o Collected(Tail(lines))

\* Non-streaming: getResponseBody answers sendPromptToDeepSeek's
\* loadingFinishedHandler, which collects the text, removes the handlers and
\* resolves the promise.
DSPromiseBody ==
    /\ server = "deepseek"
    /\ cdpQueue # <<>> /\ Head(cdpQueue).kind = "finished"
    /\ ~req[Head(cdpQueue).r].stream
    /\ LET r == Head(cdpQueue).r
           rid == Head(cdpQueue).rid
           data == responseData[r] \o Collected(turns[rid].body)
       IN /\ responseData' = [responseData EXCEPT ![r] = data]
          /\ isComplete' = [isComplete EXCEPT ![r] = TRUE]
          /\ HandlersOff(r)
          /\ Resolve(r, data)
          /\ eventStreamRequests' =
               [eventStreamRequests EXCEPT ![r] = @ \ {rid}]
    /\ cdpQueue' = Tail(cdpQueue)
    /\ UNCHANGED <<server, quota, sdkVars, envVars, pc, req, out, qwenVars, upSent, upFail, chatInput,
                   deepThink, turns, responseStarted>>

\* Non-streaming: getResponseBody fails; the catch rejects the promise.
DSPromiseThrows ==
    /\ server = "deepseek"
    /\ cdpQueue # <<>> /\ Head(cdpQueue).kind = "finished"
    /\ ~req[Head(cdpQueue).r].stream
    /\ LET r == Head(cdpQueue).r
           rid == Head(cdpQueue).rid
       IN /\ Reject(r)
          /\ upFail' = [upFail EXCEPT ![r] = "body"]
          /\ eventStreamRequests' =
               [eventStreamRequests EXCEPT ![r] = @ \ {rid}]
    /\ cdpQueue' = Tail(cdpQueue)
    /\ UNCHANGED <<server, quota, sdkVars, isComplete, responseData, envVars, pc, req, out, qwenVars, upSent, chatInput,
                   deepThink, turns, onResponse, onData, onFinished,
                   responseStarted>>

\* dataReceivedHandler's text.split("\n").forEach: one chunk for every line
\* whose v is a non-empty string; st.started is responseStarted.
RECURSIVE LiveLines(_, _, _)
LiveLines(r, lines, st) ==
    IF lines = <<>> THEN st
    ELSE LET ev == Head(lines) IN
         IF IsText(ev)
         THEN LiveLines(r, Tail(lines),
                [started |-> TRUE,
                 w |-> Append(st.w,
                         Chunk(IF st.started THEN "none" ELSE "assistant",
                               ev.text, "null", ModelOr(r, "deepseek-r1")))])
         ELSE LiveLines(r, Tail(lines), st)

\* live router: getResponseBody answers dataReceivedHandler with the body
\* received so far.
LiveDataBody ==
    /\ server = "live"
    /\ cdpQueue # <<>> /\ Head(cdpQueue).kind = "data"
    /\ LET r == Head(cdpQueue).r
           rid == Head(cdpQueue).rid
           st == LiveLines(r, turns[rid].body,
                           [started |-> responseStarted[r], w |-> <<>>])
       IN /\ out' = [out EXCEPT ![r] = Written(@, res[r], st.w)]
          /\ res' = [res EXCEPT ![r] = AfterWrite(@, st.w)]
          /\ responseStarted' = [responseStarted EXCEPT ![r] = st.started]
    /\ cdpQueue' = Tail(cdpQueue)
    /\ UNCHANGED <<server, quota, sdkVars, promiseVars, envVars, pc, req, qwenVars, upSent, upFail, chatInput,
                   deepThink, turns, onResponse, onData, onFinished,
                   eventStreamRequests>>

\* live router: getResponseBody fails; dataReceivedHandler ignores it.
LiveDataThrows ==
    /\ server = "live"
    /\ cdpQueue # <<>> /\ Head(cdpQueue).kind = "data"
    /\ cdpQueue' = Tail(cdpQueue)
    /\ UNCHANGED <<server, quota, sdkVars, promiseVars, envVars, pc, req, res, out, qwenVars, upSent, upFail,
                   chatInput, deepThink, turns, onResponse, onData, onFinished,
                   eventStreamRequests, responseStarted>>

NextBrowser ==
    \/ \E r \in Req :
        \/ DSRequest(r)
        \/ DSToggleClicked(r)
        \/ DSToggleNoClick(r)
        \/ DSSettled(r)
        \/ LiveRequest(r)
        \/ InjFocus(r)
        \/ InjClear(r)
        \/ InjSetValue(r)
        \/ InjType(r)
        \/ InjEnter(r)
        \/ InjEnterAgain(r)
        \/ InjThrows(r)
    \/ \E rid \in 1..NReq :
        \/ NetResponseReceived(rid)
        \/ NetDataReceived(rid)
        \/ NetLoadingFinished(rid)
    \/ DSFinishBody
    \/ DSFinishThrows
    \/ DSPromiseBody
    \/ DSPromiseThrows
    \/ LiveDataBody
    \/ LiveDataThrows

----------------------------------------------------------------------------

(* The Vercel gateway server: src/vercel.js *)

\* const SUPPORTED_MODELS = [...]: the pricing of each model, per million
\* tokens, in hundredths of a dollar (0.1 is 10), so that the cost of a
\* request is a whole number of 10^-8 dollars.
SUPPORTED_MODELS ==
    [m \in {"alibaba/qwen-3-30b", "alibaba/qwen-3-32b",
            "anthropic/claude-4-sonnet", "moonshotai/kimi-k2", "zai/glm-4.5"}
       |-> CASE m = "alibaba/qwen-3-30b" -> [input |-> 10, output |-> 30]
             [] m = "alibaba/qwen-3-32b" -> [input |-> 10, output |-> 30]
             [] m = "anthropic/claude-4-sonnet" ->
                    [input |-> 300, output |-> 1500]
             [] m = "moonshotai/kimi-k2" -> [input |-> 55, output |-> 220]
             [] m = "zai/glm-4.5" -> [input |-> 60, output |-> 220]]

\* The property names every plain object inherits from Object.prototype:
\* `obj[name]` is a function (or the prototype itself) for each of them, on
\* an object that has no own property of that name.
ObjectPrototype ==
    {"constructor", "hasOwnProperty", "isPrototypeOf", "propertyIsEnumerable",
     "toLocaleString", "toString", "valueOf", "__proto__",
     "__defineGetter__", "__defineSetter__", "__lookupGetter__",
     "__lookupSetter__"}

\* text.length of a text given as its pieces
RECURSIVE Length(_)
Length(text) == IF text = <<>> THEN 0 ELSE Len(Head(text)) + Length(Tail(text))

\* if (!text) return 0; return Math.ceil(text.length / 4)
estimateTokens(length) == (length + 3) \div 4

\* function calculateCost(modelName, inputTokens, outputTokens)
calculateCost(modelName, inputTokens, outputTokens) ==
    IF modelName \notin DOMAIN SUPPORTED_MODELS THEN 0
    ELSE inputTokens * SUPPORTED_MODELS[modelName].input
         + outputTokens * SUPPORTED_MODELS[modelName].output

\* const initialStats = {...}: what loadStats writes when there is no file.
initialStats ==
    [totalRequests |-> 0, totalTokensSent |-> 0, totalTokensReceived |-> 0,
     totalCost |-> 0, modelUsage |-> <<>>, requests |-> <<>>]

\* The entry of a model that has none yet.
NoUsage == [requests |-> 0, tokensSent |-> 0, tokensReceived |-> 0, cost |-> 0]

\* if (stats.requests.length > 100) stats.requests = stats.requests.slice(0, 100)
MaxLogged == 100
KeepAll(requests) == requests
KeepNewest(requests) ==
    IF Len(requests) > MaxLogged THEN SubSeq(requests, 1, MaxLogged)
    ELSE requests

\* if (!stats.modelUsage[modelName]) stats.modelUsage[modelName] = {...};
\* stats.modelUsage[modelName].requests += 1; ... as the file then holds it.
\* modelUsage is the object's own properties. A name the object inherits and
\* does not own is found on the prototype: no entry is created, the sums are
\* written to the inherited value, and JSON.stringify, which writes own
\* properties only, leaves them out of the file.
TrackUsage(modelUsage, modelName, tokensSent, tokensReceived, cost) ==
    IF modelName \notin DOMAIN modelUsage /\ modelName \in ObjectPrototype
    THEN modelUsage
    ELSE LET old == IF modelName \in DOMAIN modelUsage
                    THEN modelUsage[modelName] ELSE NoUsage
         IN [m \in DOMAIN modelUsage \cup {modelName} |->
               IF m = modelName
               THEN [requests |-> old.requests + 1,
                     tokensSent |-> old.tokensSent + tokensSent,
                     tokensReceived |-> old.tokensReceived + tokensReceived,
                     cost |-> old.cost + cost]
               ELSE modelUsage[m]]

\* function updateStats(tokensSent, tokensReceived, modelName): the file
\* after the call, st being what loadStats read from it (numbers and strings
\* come back from JSON as they were written) and t the time of the call.
updateStats(st, tokensSent, tokensReceived, modelName, t) ==
    LET cost == calculateCost(modelName, tokensSent, tokensReceived)
        request == [id |-> t, model |-> modelName,
                    inputTokens |-> tokensSent,
                    outputTokens |-> tokensReceived,
                    totalTokens |-> tokensSent + tokensReceived,
                    totalCost |-> cost]
    IN [totalRequests |-> st.totalRequests + 1,
        totalTokensSent |-> st.totalTokensSent + tokensSent,
        totalTokensReceived |-> st.totalTokensReceived + tokensReceived,
        totalCost |-> st.totalCost + cost,
        modelUsage |-> TrackUsage(st.modelUsage, modelName, tokensSent,
                                  tokensReceived, cost),
        requests |-> KeepNewest(<<request>> \o st.requests)]

\* GET /api/chat answers a fixed prompt of 63 characters with the default
\* model and logs it; LoggedSince(st, k, n) is the file after the requests
\* k+1 .. n of that kind, st being the file after the k-th, when the gateway
\* sent no text for any of them.
RECURSIVE LoggedSince(_, _, _)
LoggedSince(st, k, n) ==
    IF n = k THEN st
    ELSE updateStats(LoggedSince(st, k, n - 1), estimateTokens(63),
                     estimateTokens(0), "alibaba/qwen-3-30b", n)

\* The file after 25, 50, 75 and 99 such requests, from no file at all: the
\* next request fills the log, the one after it overflows it.
Logged25 == LoggedSince(initialStats, 0, 25)
Logged50 == LoggedSince(Logged25, 25, 50)
Logged75 == LoggedSince(Logged50, 50, 75)
AlmostFull == LoggedSince(Logged75, 75, MaxLogged - 1)

\* The request bodies a client may post.
VercelBodies ==
    [stream : BOOLEAN,
     model : {"", "zai/glm-4.5", "my-model", "constructor"},
     chat_id : {""}]

\* const { model = "alibaba/qwen-3-30b" } = req.body
VercelModel(r) ==
    IF req[r].model = "" THEN "alibaba/qwen-3-30b" ELSE req[r].model

\* messages ? messages.map((m) => m.content).join(" ") : "Hello!": the
\* length of inputText, and whether the expression throws instead (messages
\* is a value without map, or an element of it is null).
RECURSIVE JoinedLength(_)
JoinedLength(items) ==
    IF items = <<>> THEN 0
    ELSE Len(Head(items).content)
         + (IF Len(items) > 1 THEN 1 ELSE 0) + JoinedLength(Tail(items))
InputText(messages) ==
    IF ~messages.present THEN [threw |-> FALSE, length |-> Len("Hello!")]
    ELSE IF ~messages.isArray THEN [threw |-> TRUE, length |-> 0]
    ELSE IF \E i \in DOMAIN messages.items : ~messages.items[i].isObject
         THEN [threw |-> TRUE, length |-> 0]
    ELSE [threw |-> FALSE, length |-> JoinedLength(messages.items)]

\* const inputTokens = estimateTokens(inputText)
InputTokens(r) == estimateTokens(InputText(req[r].messages).length)

\* The catch of the handler: res.status(500).json({error: {...}}). Once a
\* chunk was written the headers are sent and res.json throws in its turn:
\* nothing is sent and the response stays open.
VercelCatch(r) ==
    IF out[r] = <<>>
    THEN res' = [res EXCEPT ![r] = ResJson(@, 500, "server_error")]
    ELSE UNCHANGED res

\* A client posts a chat request: the handler runs up to `await streamText`.
VercelRequest(r) ==
    /\ server = "vercel"
    /\ pc[r] = "idle" /\ r <= quota.reqs
    /\ \A q \in Req : q < r => pc[q] # "idle"
    /\ \E body \in VercelBodies, messages \in MessagesOf(r) :
         /\ req' = [req EXCEPT ![r] = Body(body, messages)]
         /\ IF InputText(messages).threw
            THEN /\ VercelCatch(r)
                 /\ pc' = [pc EXCEPT ![r] = "failed"]
            ELSE /\ pc' = [pc EXCEPT ![r] = "v_call"]
                 /\ UNCHANGED res
    /\ UNCHANGED <<server, quota, sdkVars, promiseVars, envVars, out,
                   qwenVars, upSent, upFail, browserVars>>

\* The upstream call fails: streamText throws.
VercelCallThrows(r) ==
    /\ server = "vercel" /\ pc[r] = "v_call"
    /\ VercelCatch(r)
    /\ upFail' = [upFail EXCEPT ![r] = "call"]
    /\ pc' = [pc EXCEPT ![r] = "failed"]
    /\ UNCHANGED <<server, quota, sdkVars, promiseVars, envVars, req, out,
                   qwenVars, upSent, browserVars>>

\* streamText returns. if (stream): the SSE headers are set and the initial
\* chunk written, and the handler awaits the first text part; else the
\* handler awaits result.text.
VercelCallOk(r) ==
    /\ server = "vercel" /\ pc[r] = "v_call"
    /\ IF req[r].stream
       THEN LET initialChunk == Chunk("assistant", <<>>, "null", VercelModel(r))
            IN /\ out' = [out EXCEPT ![r] = Written(@, res[r], <<initialChunk>>)]
               /\ res' = [res EXCEPT ![r] =
                            AfterWrite([@ EXCEPT !.sse = TRUE], <<initialChunk>>)]
               /\ pc' = [pc EXCEPT ![r] = "v_stream"]
       ELSE /\ pc' = [pc EXCEPT ![r] = "v_text"]
            /\ UNCHANGED <<res, out>>
    /\ UNCHANGED <<server, quota, sdkVars, promiseVars, envVars, req,
                   qwenVars, upSent, upFail, browserVars>>

\* The text parts the gateway may send as its n-th.
TextParts(n) == {<<Tok(n)>>}

\* for await (const textPart of result.textStream): one text part arrives,
\* is added to outputText and written as a chunk.
VercelTextPart(r) ==
    /\ server = "vercel" /\ pc[r] = "v_stream"
    /\ EventsSent < quota.events /\ Len(upSent[r]) < quota.perReq
    /\ \E textPart \in TextParts(EventsSent + 1) :
         LET chunk == Chunk("none", textPart, "null", VercelModel(r))
         IN /\ upSent' = [upSent EXCEPT ![r] =
                            Append(@, Ev("part", "", textPart, ""))]
            /\ outputText' = [outputText EXCEPT ![r] = @ \o textPart]
            /\ out' = [out EXCEPT ![r] = Written(@, res[r], <<chunk>>)]
            /\ res' = [res EXCEPT ![r] = AfterWrite(@, <<chunk>>)]
    /\ UNCHANGED <<server, quota, stats, statsCalls, promiseVars, envVars,
                   pc, req, qwenVars, upFail, browserVars>>

\* updateStats(inputTokens, outputTokens, model) of a request that has
\* received text: what the file holds afterwards.
StatsUntouched(r, text) == stats
StatsOf(r, text) ==
    updateStats(stats, InputTokens(r), estimateTokens(Length(text)),
                VercelModel(r), statsCalls + 1)

\* The text stream ends: the statistics are updated, the final chunk and
\* [DONE] written and the response ended.
VercelStreamEnds(r) ==
    /\ server = "vercel" /\ pc[r] = "v_stream"
    /\ stats' = StatsOf(r, outputText[r])
    /\ statsCalls' = statsCalls + 1
    /\ LET frames == <<StopChunk(VercelModel(r)), DoneFrame>>
       IN /\ out' = [out EXCEPT ![r] = Written(@, res[r], frames)]
          /\ res' = [res EXCEPT ![r] = ResEnd(AfterWrite(@, frames))]
    /\ pc' = [pc EXCEPT ![r] = "done"]
    /\ UNCHANGED <<server, quota, outputText, promiseVars, envVars, req,
                   qwenVars, upSent, upFail, browserVars>>

\* The text stream fails: the iteration throws after the initial chunk.
VercelStreamThrows(r) ==
    /\ server = "vercel" /\ pc[r] = "v_stream"
    /\ VercelCatch(r)
    /\ upFail' = [upFail EXCEPT ![r] = "stream"]
    /\ pc' = [pc EXCEPT ![r] = "failed"]
    /\ UNCHANGED <<server, quota, sdkVars, promiseVars, envVars, req, out,
                   qwenVars, upSent, browserVars>>

\* The texts result.text may resolve to.
Texts == {<<>>, <<Tok(1)>>, <<Tok(1), Tok(2), Tok(3)>>}

\* Non-streaming: result.text resolves; the statistics are updated and the
\* completion object sent.
VercelText(r) ==
    /\ server = "vercel" /\ pc[r] = "v_text"
    /\ \E text \in Texts :
         /\ stats' = StatsOf(r, text)
         /\ statsCalls' = statsCalls + 1
         /\ res' = [res EXCEPT ![r] = ResCompletion(@, text)]
    /\ pc' = [pc EXCEPT ![r] = "done"]
    /\ UNCHANGED <<server, quota, outputText, promiseVars, envVars, req, out,
                   qwenVars, upSent, upFail, browserVars>>

\* Non-streaming: result.text rejects.
VercelTextThrows(r) ==
    /\ server = "vercel" /\ pc[r] = "v_text"
    /\ VercelCatch(r)
    /\ upFail' = [upFail EXCEPT ![r] = "stream"]
    /\ pc' = [pc EXCEPT ![r] = "failed"]
    /\ UNCHANGED <<server, quota, sdkVars, promiseVars, envVars, req, out,
                   qwenVars, upSent, browserVars>>

NextVercel ==
    \/ \E r \in Req : VercelRequest(r)
    \/ \E r \in Req : VercelCallThrows(r)
    \/ \E r \in Req : VercelCallOk(r)
    \/ \E r \in Req : VercelTextPart(r)
    \/ \E r \in Req : VercelStreamEnds(r)
    \/ \E r \in Req : VercelStreamThrows(r)
    \/ \E r \in Req : VercelText(r)
    \/ \E r \in Req : VercelTextThrows(r)

----------------------------------------------------------------------------
(* The Cerebras server: app.post("/v1/chat/completions") of                *)
(* src/unnamed/part_000                                                     *)

\* The request bodies a client may post; the handler streams unless stream
\* is false.
CerebrasBodies ==
    [stream : BOOLEAN, model : {"", "qwen-3-coder-480b"}, chat_id : {""}]

\* const selectedModel = model || SUPPORTED_MODELS[0].model
selectedModel(r) == ModelOr(r, "qwen-3-235b-a22b-instruct-2507")

\* messages.map((m) => m.content).join(" ") throws: messages is undefined or
\* a value without map, or an element of it is null.
MessageTextThrows(messages) ==
    \/ ~messages.present \/ ~messages.isArray
    \/ \E i \in DOMAIN messages.items : ~messages.items[i].isObject

\* A chunk of the upstream stream, by what the handler reads of it:
\*   t = "content"  choices[0].delta.content is a non-empty string
\*   t = "empty"    choices[0].delta has no content, or an empty one
\*   t = "usage"    the chunk has no choices
\* status is choices[0].finish_reason ("" when it is null or absent).
ClosingTag == "</think>"
CerebrasChunks(n) ==
    { Ev("content", "", tx, fin) :
        tx \in {<<Tok(n)>>, <<Tok(n), ClosingTag>>}, fin \in {"", "stop"} }
    \cup { Ev("empty", "", <<>>, fin) : fin \in {"", "stop"} }
    \cup { Ev("usage", "", <<>>, "") }

\* content.replace(/(<\/think>)/g, "$1\n")
RECURSIVE Newlined(_)
Newlined(text) ==
    IF text = <<>> THEN <<>>
    ELSE (IF Head(text) = ClosingTag THEN <<ClosingTag, "\n">>
          ELSE <<Head(text)>>)
         \o Newlined(Tail(text))

\* const tokenMetrics = `\n\n---\nTokens/second: ... | Tokens sent: ... |
\* Response tokens: ...`: the footer, whatever its numbers are.
tokenMetrics == "\n\n---\nTokens/second"

\* if (chunk.choices[0].finish_reason) { ... delta.content += tokenMetrics,
\* or delta.content = tokenMetrics }: the content of the chunk afterwards.
MetricsOnEvery(chunk, content) == content \o <<tokenMetrics>>
WithMetrics(chunk, content) ==
    IF chunk.status # "" THEN content \o <<tokenMetrics>> ELSE content

\* `data: ${JSON.stringify(chunk)}\n\n` of an upstream chunk after the loop
\* body has processed it.
Forwarded(r, chunk) ==
    IF chunk.t = "usage"
    THEN Frame("chunk", "none", FALSE, <<>>, "null", selectedModel(r), 2)
    ELSE LET content == WithMetrics(chunk, Newlined(chunk.text))
         IN Frame("chunk", "none", chunk.t = "content" \/ content # <<>>,
                  content, IF chunk.status = "" THEN "null" ELSE chunk.status,
                  selectedModel(r), 2)

\* The catch of the handler: res.status(500).json({error, details}). Once a
\* chunk was written the headers are sent and res.json throws in its turn:
\* nothing is sent and the response stays open.
CerebrasCatch(r) ==
    IF out[r] = <<>>
    THEN res' = [res EXCEPT ![r] = ResJson(@, 500, "Cerebras API Error")]
    ELSE UNCHANGED res

\* A client posts a chat request: the handler runs up to
\* `await cerebras.chat.completions.create(...)`.
CerebrasRequest(r) ==
    /\ server = "cerebras"
    /\ pc[r] = "idle" /\ r <= quota.reqs
    /\ \A q \in Req : q < r => pc[q] # "idle"
    /\ \E body \in CerebrasBodies, messages \in MessagesOf(r) :
         req' = [req EXCEPT ![r] = Body(body, messages)]
    /\ pc' = [pc EXCEPT ![r] = "c_call"]
    /\ UNCHANGED <<server, quota, sdkVars, promiseVars, envVars, res, out,
                   qwenVars, upSent, upFail, browserVars>>

\* create rejects.
CerebrasCallThrows(r) ==
    /\ server = "cerebras" /\ pc[r] = "c_call"
    /\ CerebrasCatch(r)
    /\ upFail' = [upFail EXCEPT ![r] = "call"]
    /\ pc' = [pc EXCEPT ![r] = "failed"]
    /\ UNCHANGED <<server, quota, sdkVars, promiseVars, envVars, req, out,
                   qwenVars, upSent, browserVars>>

\* create resolves. if (stream !== false): the SSE headers are set, the
\* tokens sent are estimated from the messages and the handler awaits the
\* first chunk. Otherwise the completion's content gets a newline after each
\* closing tag and the footer, and the completion is sent.
CerebrasCallOk(r) ==
    /\ server = "cerebras" /\ pc[r] = "c_call"
    /\ IF MessageTextThrows(req[r].messages)
       THEN /\ CerebrasCatch(r)
            /\ pc' = [pc EXCEPT ![r] = "failed"]
       ELSE IF req[r].stream
       THEN /\ res' = [res EXCEPT ![r].sse = TRUE]
            /\ pc' = [pc EXCEPT ![r] = "c_stream"]
       ELSE /\ \E responseText \in Texts \cup {<<Tok(1), ClosingTag>>} :
                 res' = [res EXCEPT ![r] =
                    ResCompletion(@, Newlined(responseText)
                                       \o <<tokenMetrics>>)]
            /\ pc' = [pc EXCEPT ![r] = "done"]
    /\ UNCHANGED <<server, quota, sdkVars, promiseVars, envVars, req, out,
                   qwenVars, upSent, upFail, browserVars>>

\* for await (const chunk of completion): one chunk arrives, is processed
\* and written.
CerebrasChunk(r) ==
    /\ server = "cerebras" /\ pc[r] = "c_stream"
    /\ EventsSent < quota.events /\ Len(upSent[r]) < quota.perReq
    /\ \E chunk \in CerebrasChunks(EventsSent + 1) :
         /\ upSent' = [upSent EXCEPT ![r] = Append(@, chunk)]
         /\ out' = [out EXCEPT ![r] =
                      Written(@, res[r], <<Forwarded(r, chunk)>>)]
         /\ res' = [res EXCEPT ![r] = AfterWrite(@, <<Forwarded(r, chunk)>>)]
    /\ UNCHANGED <<server, quota, sdkVars, promiseVars, envVars, pc, req,
                   qwenVars, upFail, browserVars>>

\* The upstream stream ends: [DONE] is written and the response ended.
CerebrasStreamEnds(r) ==
    /\ server = "cerebras" /\ pc[r] = "c_stream"
    /\ out' = [out EXCEPT ![r] = Written(@, res[r], <<DoneFrame>>)]
    /\ res' = [res EXCEPT ![r] = ResEnd(AfterWrite(@, <<DoneFrame>>))]
    /\ pc' = [pc EXCEPT ![r] = "done"]
    /\ UNCHANGED <<server, quota, sdkVars, promiseVars, envVars, req,
                   qwenVars, upSent, upFail, browserVars>>

\* The upstream stream fails: the iteration throws.
CerebrasStreamThrows(r) ==
    /\ server = "cerebras" /\ pc[r] = "c_stream"
    /\ CerebrasCatch(r)
    /\ upFail' = [upFail EXCEPT ![r] = "stream"]
    /\ pc' = [pc EXCEPT ![r] = "failed"]
    /\ UNCHANGED <<server, quota, sdkVars, promiseVars, envVars, req, out,
                   qwenVars, upSent, browserVars>>

NextCerebras ==
    \/ \E r \in Req : CerebrasRequest(r)
    \/ \E r \in Req : CerebrasCallThrows(r)
    \/ \E r \in Req : CerebrasCallOk(r)
    \/ \E r \in Req : CerebrasChunk(r)
    \/ \E r \in Req : CerebrasStreamEnds(r)
    \/ \E r \in Req : CerebrasStreamThrows(r)

----------------------------------------------------------------------------
(* The world outside: time and callers *)

\* Number of outside events so far.
Extras == Cardinality(timedOut) + Cardinality(stale) + Cardinality(disconnected)

\* Thirty seconds have passed since request r was made; its handler has
\* returned (waitForSelector itself gives up after 10 seconds) and its stream
\* is still open. The streaming branches set no timer (only the
\* non-streaming sendPromptToDeepSeek does), so no code runs.
Timeout30(r) ==
    /\ Extras < quota.extras
    /\ r \notin timedOut
    /\ pc[r] \in {"stream", "returned"}
    /\ res[r].sse /\ res[r].state = "open"
    /\ timedOut' = timedOut \cup {r}
    /\ UNCHANGED <<server, quota, sdkVars, promiseVars, stale, disconnected, pc, req, res, out,
                   qwenVars, upSent, upFail, browserVars>>

\* Non-streaming: the 30-second timer of sendPromptToDeepSeek fires.
\* if (!isComplete) { off; off; reject(new Error("Response timeout")) }
PromiseTimer(r) ==
    /\ server = "deepseek" /\ ~req[r].stream /\ pc[r] = "returned"
    /\ Extras < quota.extras
    /\ r \notin timedOut
    /\ timedOut' = timedOut \cup {r}
    /\ IF ~isComplete[r]
       THEN /\ HandlersOff(r)
            /\ Reject(r)
            /\ upFail' = [upFail EXCEPT ![r] =
                             IF promise[r] = "pending" THEN "timeout" ELSE @]
       ELSE UNCHANGED <<onResponse, onData, onFinished, promise, res, upFail>>
    /\ UNCHANGED <<server, quota, sdkVars, isComplete, responseData, stale, disconnected, pc, req, out,
                   qwenVars, upSent, chatInput, deepThink, turns,
                   eventStreamRequests, cdpQueue, responseStarted>>

\* The session of conversation key k has not been used for longer than any
\* max age, and any sweep interval has passed since. No timer or interval
\* sweeps conversationState, so no code runs.
MaxAgePassed(k) ==
    /\ server = "qwen"
    /\ Extras < quota.extras
    /\ conversationState[k].present /\ k \notin stale
    /\ \A r \in Req : payload[r].chat_id = k => pc[r] = "done"
    /\ stale' = stale \cup {k}
    /\ UNCHANGED <<server, quota, sdkVars, promiseVars, timedOut, disconnected, pc, req, res, out,
                   qwenVars, upSent, upFail, browserVars>>

\* The caller of request r closes its connection while the response is open.
\* No handler listens for req "close" or res "close", so no code runs.
ClientDisconnects(r) ==
    /\ Extras < quota.extras
    /\ r \notin disconnected
    /\ pc[r] # "idle" /\ res[r].state = "open"
    /\ disconnected' = disconnected \cup {r}
    /\ UNCHANGED <<server, quota, sdkVars, promiseVars, timedOut, stale, pc, req, res, out,
                   qwenVars, upSent, upFail, browserVars>>

NextOutside ==
    \/ \E r \in Req : Timeout30(r)
    \/ \E r \in Req : PromiseTimer(r)
    \/ \E k \in ConversationKeys : MaxAgePassed(k)
    \/ \E r \in Req : ClientDisconnects(r)

\* What a run may hold: one request with a long upstream body, or several
\* requests with short ones (on the Qwen router one event each, so that each
\* turn can complete, as on the Vercel and Cerebras servers; on the browser
\* routers one event in all), or one
\* request, one event and an outside event. `streams` holds the values of
\* `stream` the callers of the DeepSeek router use: the run of several
\* requests has streaming callers only. The last run is one request with any
\* of the message lists and an upstream that sends no text; in the others a
\* request carries one user message.
AllServers == {"qwen", "deepseek", "live", "vercel", "cerebras"}
Quotas ==
    { [servers |-> AllServers, reqs |-> 1, events |-> MaxEvents,
       perReq |-> MaxEvents, splits |-> MaxSplits, extras |-> 0,
       streams |-> BOOLEAN, anyMessages |-> FALSE],
      [servers |-> {"deepseek", "live"}, reqs |-> NReq, events |-> 1,
       perReq |-> 1, splits |-> 0, extras |-> 0, streams |-> {TRUE},
       anyMessages |-> FALSE],
      [servers |-> {"qwen", "vercel", "cerebras"}, reqs |-> NReq, events |-> NReq,
       perReq |-> 1, splits |-> 0, extras |-> 0, streams |-> BOOLEAN,
       anyMessages |-> FALSE],
      [servers |-> AllServers, reqs |-> 1, events |-> 1,
       perReq |-> 1, splits |-> 0, extras |-> MaxExtras,
       streams |-> BOOLEAN, anyMessages |-> FALSE],
      [servers |-> AllServers, reqs |-> 1, events |-> 0,
       perReq |-> 0, splits |-> 0, extras |-> 0,
       streams |-> BOOLEAN, anyMessages |-> TRUE] }

NoBody ==
    [stream |-> FALSE, model |-> "", chat_id |-> "", messages |-> NoMessages]
NoPayload ==
    [chat_id |-> "", parent_id |-> "null", thinking_enabled |-> FALSE,
     content |-> ""]

Init ==
    /\ server \in AllServers
    /\ quota \in {q \in Quotas : server \in q.servers}
    /\ pc = [r \in Req |-> "idle"]
    /\ req = [r \in Req |-> NoBody]
    /\ res = [r \in Req |-> NewRes]
    /\ out = [r \in Req |-> <<>>]
    /\ buffer = [r \in Req |-> <<>>]
    /\ isInThinkingPhase = [r \in Req |-> FALSE]
    /\ conversationState = [k \in ConversationKeys |-> Absent]
    /\ payload = [r \in Req |-> NoPayload]
    /\ upSent = [r \in Req |-> <<>>]
    /\ upHalf = [r \in Req |-> "none"]
    /\ upSplits = 0
    /\ upFail = [r \in Req |-> "none"]
    /\ chatInput = <<>>
    /\ deepThink \in (IF server = "qwen" THEN {FALSE} ELSE BOOLEAN)
    /\ turns = <<>>
    /\ onResponse = {}
    /\ onData = {}
    /\ onFinished = {}
    /\ eventStreamRequests = [r \in Req |-> {}]
    /\ cdpQueue = <<>>
    /\ responseStarted = [r \in Req |-> FALSE]
    /\ promise = [r \in Req |-> "none"]
    /\ isComplete = [r \in Req |-> FALSE]
    /\ responseData = [r \in Req |-> <<>>]
    /\ stats \in (IF server = "vercel"
                  THEN {initialStats, AlmostFull}
                  ELSE {initialStats})
    /\ statsCalls = stats.totalRequests
    /\ outputText = [r \in Req |-> <<>>]
    /\ timedOut = {}
    /\ stale = {}
    /\ disconnected = {}

Next == NextQwen \/ NextBrowser \/ NextVercel \/ NextCerebras \/ NextOutside

Spec == Init /\ [][Next]_vars

----------------------------------------------------------------------------
(* Reading an outward stream *)

IsChunk(f) == f.kind = "chunk"
IsStop(f) == f.kind = "chunk" /\ f.finish = "stop"
HasRole(f) == f.kind = "chunk" /\ f.role # "none"
HasText(f) == f.kind = "chunk" /\ f.content # <<>>
\* The frame announces the end of the stream, in whatever bytes.
IsSentinel(f) == f.kind \in {"done", "raw"} /\ f.content = <<"data: [DONE]">>

\* The text a caller reads: the contents of the chunks, in order.
RECURSIVE Text(_)
Text(o) ==
    IF o = <<>> THEN <<>>
    ELSE (IF IsChunk(Head(o)) THEN Head(o).content ELSE <<>>) \o Text(Tail(o))

Count(o, P(_)) == Cardinality({i \in 1..Len(o) : P(o[i])})

TokSet == {Tok(i) : i \in 1..8}
TokIndex(p) == CHOOSE i \in 1..8 : Tok(i) = p

OpenDelims == {"\n<thinking>\n", "<thinking>\n"}
CloseDelim == "\n</thinking>\n\n"

\* The texts of the events of s that satisfy P.
TextsOf(s, P(_)) == {s[i].text[1] : i \in {j \in 1..Len(s) : P(s[j]) /\ s[j].text # <<>>}}

IsThinkEv(ev) == ev.t = "delta" /\ ev.phase = "think"
IsAnswerEv(ev) == ev.t = "delta" /\ ev.phase \in {"answer", ""}
IsMarkerEv(ev) == IsThinkEv(ev) /\ ev.status = "finished"
\* Qwen's terminal event: the answer delta whose status is "finished".
IsTerminalEv(ev) == IsAnswerEv(ev) /\ ev.status = "finished"

\* A Qwen upstream body that is well formed and holds exactly one terminal
\* event: every line is whole, terminated and parses to a known message, one
\* delta is terminal, only non-delta messages and [DONE] follow it, and
\* [DONE] is sent at most once.
QwenWellFormed(r) ==
    LET s == upSent[r] IN
    /\ upFail[r] = "none" /\ upHalf[r] = "none"
    /\ \A i \in 1..Len(s) : s[i].t \in {"delta", "nondelta", "done"}
    /\ Cardinality({i \in 1..Len(s) : s[i].t = "done"}) <= 1
    /\ \E k \in 1..Len(s) :
         /\ IsTerminalEv(s[k])
         /\ \A i \in 1..Len(s) :
              /\ i < k => s[i].t # "done" /\ ~IsTerminalEv(s[i])
              /\ i > k => s[i].t \in {"nondelta", "done"}

\* A turn body of the page that is well formed: its lines parse, and [DONE]
\* is its last line.
TurnWellFormed(rid) ==
    LET b == turns[rid].body IN
    /\ turns[rid].phase = "finished"
    /\ b # <<>> /\ b[Len(b)].t = "done"
    /\ \A i \in 1..(Len(b) - 1) : b[i].t = "v"

\* The upstream of request r was well formed and did not fail.
WellFormed(r) ==
    IF server = "qwen" THEN QwenWellFormed(r)
    ELSE /\ server \in {"deepseek", "live"}
         /\ upFail[r] = "none" /\ \A rid \in DOMAIN turns : TurnWellFormed(rid)

\* Request r's streaming response has completed.
StreamCompleted(r) == res[r].state = "ended" /\ res[r].sse

----------------------------------------------------------------------------
(* The claims *)

\* The routers that translate an upstream event stream: the handlers of
\* src/ollama-mock.js and src/next.config.js.
Routers == {"qwen", "deepseek", "live"}

\* C1: in a streaming response whose upstream was well formed and held exactly
\* one terminal event, exactly one chunk carries finish_reason "stop", no
\* chunk follows it, and the [DONE] sentinel is written only after it.
C1_OneStopLastBeforeDone ==
    \A r \in Req :
        StreamCompleted(r) /\ WellFormed(r) =>
            /\ Count(out[r], IsStop) = 1
            /\ \A i \in 1..Len(out[r]) :
                 IsStop(out[r][i]) =>
                    \A j \in (i + 1)..Len(out[r]) :
                        /\ ~IsChunk(out[r][j])
                        /\ IsSentinel(out[r][j]) => j = i + 1
            /\ \A j \in 1..Len(out[r]) :
                 IsSentinel(out[r][j]) => j > 1 /\ IsStop(out[r][j - 1])

\* A Qwen stream of text, terminal event and [DONE] has completed.
C1_Witness ==
    \E r \in Req :
        /\ server = "qwen" /\ StreamCompleted(r) /\ WellFormed(r)
        /\ Len(out[r]) >= 3
        /\ \E j \in 1..Len(out[r]) : IsSentinel(out[r][j])

\* The first index of s that satisfies P, or Len(s) + 1.
FirstIndex(s, P(_)) ==
    LET I == {i \in 1..Len(s) : P(s[i])}
    IN IF I = {} THEN Len(s) + 1 ELSE CHOOSE i \in I : \A j \in I : i <= j

\* The events of s before index k.
Before(s, k) == SubSeq(s, 1, k - 1)
After(s, k) == SubSeq(s, k + 1, Len(s))

\* In the text X a caller reads, an opening delimiter, every fragment of
\* `think` and the closing delimiter stand, in this order, before the first
\* fragment of `answer`.
PhaseOrdered(X, think, answer) ==
    LET a == FirstIndex(X, LAMBDA p : p \in answer) IN
    a <= Len(X) =>
        \E i, j \in 1..(a - 1) :
            /\ i < j
            /\ X[i] \in OpenDelims
            /\ X[j] = CloseDelim
            /\ \A t \in think : \E k \in (i + 1)..(j - 1) : X[k] = t

\* A Qwen event sequence that respects the phase marker (the thinking delta
\* whose status is "finished"): no thinking delta follows the marker or an
\* answer delta, and the marker stands between thinking and answer deltas.
QwenRespectsMarker(s) ==
    /\ \A i, j \in 1..Len(s) :
         i < j /\ IsThinkEv(s[j]) => ~IsAnswerEv(s[i]) /\ ~IsMarkerEv(s[i])
    /\ \A j \in 1..Len(s) :
         IsAnswerEv(s[j]) /\ (\E i \in 1..(j - 1) : IsThinkEv(s[i]))
            => \E i \in 1..(j - 1) : IsMarkerEv(s[i])

\* The lines of a page turn that the router reads: those before [DONE].
ReadLines(b) == Before(b, FirstIndex(b, LAMBDA ev : ev.t = "done"))
IsElapsedEv(ev) == ev.t = "v" /\ ev.phase = ThinkingElapsed
\* The thinking fragments of a page turn are its text lines before the
\* thinking_elapsed_secs marker, its answer fragments the text lines after it.
TurnThink(rid) ==
    LET b == ReadLines(turns[rid].body)
    IN TextsOf(Before(b, FirstIndex(b, IsElapsedEv)), IsText)
TurnAnswer(rid) ==
    LET b == ReadLines(turns[rid].body)
    IN TextsOf(After(b, FirstIndex(b, IsElapsedEv)), IsText)

\* C2: in a stream of a router that separates phases (Qwen; DeepSeek for the
\* thinking model), when the upstream sent thinking and answer events that
\* respect the phase marker, the opening delimiter, every thinking fragment
\* and the closing delimiter are written before the first answer fragment.
C2_ThinkingBlockBeforeAnswer ==
    \A r \in Req :
        /\ server = "qwen" /\ QwenRespectsMarker(upSent[r])
              /\ (\E i \in 1..Len(upSent[r]) : IsThinkEv(upSent[r][i]))
              => PhaseOrdered(Text(out[r]),
                              TextsOf(upSent[r], IsThinkEv),
                              TextsOf(upSent[r], IsAnswerEv))
        /\ server = "deepseek" /\ IsThinkingModel(r)
              => \A rid \in DOMAIN turns :
                    TurnThink(rid) # {}
                       => PhaseOrdered(Text(out[r]), TurnThink(rid),
                                       TurnAnswer(rid))

\* A stream holds a thinking fragment and, after it, an answer fragment.
C2_Witness ==
    \E r \in Req :
        /\ server = "qwen" => QwenRespectsMarker(upSent[r])
        /\ server = "deepseek" => IsThinkingModel(r)
        /\ server # "live"
        /\ LET X == Text(out[r]) IN
           \E i, j \in 1..Len(X) :
              /\ i < j
              /\ IF server = "qwen"
                 THEN /\ X[i] \in TextsOf(upSent[r], IsThinkEv)
                      /\ X[j] \in TextsOf(upSent[r], IsAnswerEv)
                 ELSE \E rid \in DOMAIN turns :
                         X[i] \in TurnThink(rid) /\ X[j] \in TurnAnswer(rid)

\* C3: the text fragments of a stream are written in the order their raw
\* events arrived: none is written after a later one, and none twice.
C3_DeltasInArrivalOrder ==
    \A r \in Req :
        LET X == Text(out[r]) IN
        \A i, j \in 1..Len(X) :
            i < j /\ X[i] \in TokSet /\ X[j] \in TokSet
               => TokIndex(X[i]) < TokIndex(X[j])

\* The chunk a caller can read as an error: it carries text and
\* finish_reason "stop".
IsErrorChunk(f) == IsStop(f) /\ HasText(f)

\* C4: when the upstream fails, the response is a stream that holds exactly
\* one error chunk (error text, finish_reason "stop") as its last chunk and is
\* closed; the caller never gets a bare transport-level failure.
C4_FailureYieldsErrorChunk ==
    \A r \in Req :
        server \in Routers /\ upFail[r] # "none" =>
            /\ res[r].state = "ended"
            /\ res[r].sse /\ res[r].json = "none"
            /\ Count(out[r], IsErrorChunk) = 1
            /\ \A i \in 1..Len(out[r]) :
                 IsErrorChunk(out[r][i]) =>
                    \A j \in (i + 1)..Len(out[r]) : ~IsChunk(out[r][j])

\* Request r's turn holds the page: r has put its prompt into the chat input
\* and not yet submitted it, or has submitted and its response is still open.
UsingPage(r) ==
    \/ pc[r] \in {"i_type", "i_enter"}
    \/ pc[r] = "returned" /\ res[r].state = "open"

\* C5: the shared page is used by at most one in-flight turn at a time.
C5_OneTurnOnPage == Cardinality({r \in Req : UsingPage(r)}) <= 1

\* The fragments the upstream sent for request r's own turn.
OwnTokens(r) ==
    IF server = "qwen" THEN TextsOf(upSent[r], LAMBDA ev : TRUE)
    ELSE UNION {TextsOf(turns[rid].body, IsText) :
                  rid \in {k \in DOMAIN turns : turns[k].owner = r}}

\* C6: a caller's stream holds only fragments of its own turn.
C6_OwnTurnOnly ==
    \A r \in Req :
        LET X == Text(out[r]) IN
        \A i \in 1..Len(X) :
            server \in Routers /\ X[i] \in TokSet => X[i] \in OwnTokens(r)

\* C7: within one stream the role field appears in at most one chunk, and
\* every later chunk omits it.
C7_RoleInOneChunk == \A r \in Req : Count(out[r], HasRole) <= 1

\* The upstream of request r announced its end with [DONE].
UpstreamSentDone(r) ==
    IF server = "qwen" THEN \E i \in 1..Len(upSent[r]) : upSent[r][i].t = "done"
    ELSE \A rid \in DOMAIN turns : TurnWellFormed(rid)

\* C8: a streaming response that completes holds the literal frame
\* `data: [DONE]\n\n` exactly once, as its last frame.
C8_DoneLiteralOnceLast ==
    \A r \in Req :
        StreamCompleted(r) /\ WellFormed(r) /\ UpstreamSentDone(r) =>
            /\ out[r] # <<>>
            /\ out[r][Len(out[r])] = DoneFrame
            /\ Count(out[r], LAMBDA f : f = DoneFrame) = 1

\* C9: a request with stream = false gets no SSE frame: its response is one
\* JSON object.
C9_NonStreamingNoFrames ==
    \A r \in Req :
        pc[r] # "idle" /\ ~req[r].stream =>
            /\ out[r] = <<>>
            /\ res[r].state = "ended" => res[r].json # "none"

\* The frame holds the bytes of an upstream line that is not JSON, or that
\* was cut short.
IsMalformedBytes(f) ==
    /\ f.kind = "raw" /\ f.content # <<>>
    /\ \/ f.content = <<"data:", "badjson">>
       \/ f.content[1] = "data:..."

\* C10: a data line that does not parse as JSON puts no bytes on the outward
\* stream.
C10_MalformedLineDropped ==
    \A r \in Req : Count(out[r], IsMalformedBytes) = 0

\* The frames the data handler writes when the lines of the events s reach
\* it whole, in one transport chunk.
OneChunkOut(r, s) ==
    QwenLines(r, [i \in 1..Len(s) |-> <<Item(s[i], 1), Item(s[i], 2)>>],
              [think |-> FALSE, w |-> <<>>]).w

\* C11: decoding is invariant under re-chunking: once every line sent so far
\* is terminated, the frames written equal the frames the same bytes give
\* when they arrive in one chunk, wherever the transport cut them.
C11_RechunkingInvariant ==
    \A r \in Req :
        server = "qwen" /\ pc[r] = "stream" /\ upHalf[r] = "none"
            => out[r] = OneChunkOut(r, upSent[r])

\* The upstream of request r has sent no terminal event so far.
NoTerminalEvent(r) ==
    IF server = "qwen"
    THEN \A i \in 1..Len(upSent[r]) : ~IsTerminalEv(upSent[r][i])
    ELSE \A rid \in DOMAIN turns : InProgress(rid)

\* Request r holds no handler on the shared browser client and reads no
\* upstream body.
Released(r) ==
    /\ r \notin onResponse \cup onData \cup onFinished
    /\ pc[r] # "stream"

\* C12: when 30 seconds have passed since a streaming request and the
\* upstream has sent no terminal event, the stream is finished: it holds
\* exactly one error chunk with finish_reason "stop", then [DONE], the
\* response is ended and the upstream connection or handlers are released.
C12_TimeoutForcesFinished ==
    \A r \in timedOut :
        NoTerminalEvent(r) =>
            /\ res[r].state = "ended"
            /\ Count(out[r], IsErrorChunk) = 1
            /\ out[r] # <<>> /\ IsSentinel(out[r][Len(out[r])])
            /\ Released(r)

\* C13: once a response has ended, no handler writes to it or answers it
\* again: a pending handler or a late event does nothing.
C13_NoWriteAfterFinished == \A r \in Req : ~res[r].late

\* Request q's turn on the Qwen router was successful: its upstream was well
\* formed, held its terminal event, and the response has completed.
SuccessfulTurn(q) == server = "qwen" /\ StreamCompleted(q) /\ QwenWellFormed(q)

\* C14: after a successful turn the session's parent identifier has advanced:
\* the next request for the same conversation key sends a parent_id that is
\* not null.
C14_ParentAdvances ==
    [][\A r \in Req :
          /\ pc[r] = "idle" /\ pc'[r] = "fetch"
          /\ \E q \in Req \ {r} :
                SuccessfulTurn(q) /\ payload[q].chat_id = payload'[r].chat_id
          => payload'[r].parent_id # "null"]_vars

\* The linkage identifier X the upstream returns for a turn (the same X for
\* both turns of the claim). The handler never reads it.
LinkageX == "x"

\* C15: advancing a session twice with the same linkage identifier X is
\* idempotent: when a second successful turn of a conversation completes, the
\* session's parent identifier is X.
C15_AdvanceIdempotent ==
    [][\A q \in Req :
          /\ ~SuccessfulTurn(q) /\ SuccessfulTurn(q)'
          /\ \E p \in Req \ {q} :
                SuccessfulTurn(p) /\ payload[p].chat_id = payload[q].chat_id
          => conversationState'[payload[q].chat_id].parent_id = LinkageX]_vars

\* Request r's handler resolves its session in this step.
Resolves(r) == server = "qwen" /\ pc[r] = "idle" /\ pc'[r] = "fetch"

\* C16: resolving a conversation key is idempotent while no advance takes
\* place: every resolve returns the session of its key with the key's
\* upstream chat identifier and a null parent identifier, a resolve of a key
\* that has a session leaves that session's parent identifier as it was, and
\* no resolve touches the session of another key.
C16_ResolveIdempotent ==
    [][\A r \in Req :
          Resolves(r) =>
             LET k == ChatIdOf(req'[r]) IN
             /\ payload'[r].chat_id = k
             /\ payload'[r].parent_id = "null"
             /\ conversationState'[k].present
             /\ conversationState'[k].parent_id = "null"
             /\ conversationState[k].present
                   => conversationState'[k].parent_id
                         = conversationState[k].parent_id
             /\ \A k2 \in ConversationKeys \ {k} :
                   conversationState'[k2] = conversationState[k2]
             /\ \A q \in Req \ {r} :
                   pc[q] # "idle" /\ ChatIdOf(req[q]) = k
                      => payload[q].chat_id = payload'[r].chat_id]_vars

\* Two requests have resolved the same conversation key, one after the other.
C16_Witness ==
    \E r, q \in Req :
        /\ server = "qwen" /\ q < r
        /\ pc[q] # "idle" /\ pc[r] # "idle"
        /\ payload[q].chat_id = payload[r].chat_id
        /\ conversationState[payload[r].chat_id].nextChildFid = r

\* C17: after a sweep, a session that was not used for longer than the max
\* age is absent from the registry.
C17_StaleSessionEvicted ==
    \A k \in stale : ~conversationState[k].present

\* The upstream of the scenario: a thinking text, the phase-transition
\* marker, an answer text, then the terminal event. On the page this is a
\* body of three lines whose loading then finishes; on Qwen four deltas.
ScenarioBody(b) ==
    /\ Len(b) = 3
    /\ IsText(b[1]) /\ IsElapsedEv(b[2]) /\ IsText(b[3])
ScenarioDeltas(s) ==
    /\ Len(s) = 4
    /\ IsThinkEv(s[1]) /\ s[1].text # <<>> /\ ~IsMarkerEv(s[1])
    /\ IsMarkerEv(s[2]) /\ s[2].text = <<>>
    /\ IsAnswerEv(s[3]) /\ s[3].text # <<>> /\ ~IsTerminalEv(s[3])
    /\ IsTerminalEv(s[4]) /\ s[4].text = <<>>

\* The four frames of the scenario, for thinking text t1 and answer text t2.
ScenarioFrames(o, t1, t2) ==
    /\ Len(o) = 4
    /\ HasRole(o[1]) /\ o[1].content = <<"<thinking>\n">> \o t1 \o <<CloseDelim>>
    /\ IsChunk(o[2]) /\ o[2].content = t2 /\ o[2].finish = "null"
    /\ IsStop(o[3])
    /\ o[4] = DoneFrame

\* C18: for the scenario's upstream the outward stream is exactly four
\* frames: role with the wrapped thinking text, the answer text, the chunk
\* with finish_reason "stop", [DONE].
C18_ScenarioFourFrames ==
    \A r \in Req :
        StreamCompleted(r) /\ upFail[r] = "none" =>
            /\ server = "deepseek" /\ IsThinkingModel(r) /\ Len(turns) = 1
                  /\ ScenarioBody(turns[1].body)
                  => ScenarioFrames(out[r], turns[1].body[1].text,
                                    turns[1].body[3].text)
            /\ server = "qwen" /\ ScenarioDeltas(upSent[r])
                  => ScenarioFrames(out[r], upSent[r][1].text,
                                    upSent[r][3].text)

\* C19: once the caller of a request has disconnected, the request's task
\* reads no further upstream frame and writes nothing more.
C19_DisconnectStopsTask ==
    [][\A r \in disconnected :
          server \in Routers =>
              (out'[r] = out[r] /\ buffer'[r] = buffer[r])]_vars

\* The answer fragments the upstream has sent for request r's stream.
AnswerTokens(r) ==
    IF server = "qwen" THEN TextsOf(upSent[r], IsAnswerEv)
    ELSE UNION {TurnAnswer(rid) : rid \in DOMAIN turns}

\* Reading the text X from left to right with `st` telling whether a thinking
\* segment is open: "bad" when a delimiter does not alternate or an answer
\* fragment stands inside an open segment, else "open" or "closed" at the end.
RECURSIVE DelimScan(_, _, _)
DelimScan(X, answer, st) ==
    IF X = <<>> \/ st = "bad" THEN st
    ELSE LET p == Head(X) IN
         DelimScan(Tail(X), answer,
                   IF p \in OpenDelims
                   THEN (IF st = "closed" THEN "open" ELSE "bad")
                   ELSE IF p = CloseDelim
                   THEN (IF st = "open" THEN "closed" ELSE "bad")
                   ELSE IF p \in answer /\ st = "open" THEN "bad"
                   ELSE st)

\* C20: in the outward text the thinking delimiters form pairs: openings and
\* closings alternate, no answer text stands between an opening and its
\* closing, and no opening is left without its closing when the stream of a
\* well-formed upstream has finished.
C20_DelimitersPaired ==
    \A r \in Req :
        LET st == DelimScan(Text(out[r]), AnswerTokens(r), "closed") IN
        /\ st # "bad"
        /\ StreamCompleted(r) /\ WellFormed(r) => st = "closed"

\* The upstream of request r has sent its terminal event and the data handler
\* has processed that event's line.
TerminalProcessed(r) ==
    \E i \in 1..Len(upSent[r]) :
        /\ IsTerminalEv(upSent[r][i])
        /\ i < Len(upSent[r]) \/ upHalf[r] = "none"

\* The text lines of a page turn that stand after its [DONE] line.
TextsAfterDone(rid) ==
    LET b == turns[rid].body
    IN TextsOf(After(b, FirstIndex(b, LAMBDA ev : ev.t = "done")), IsText)

\* C21: after the upstream's terminal event has been processed, a further
\* upstream event of the same stream produces no outward chunk: on Qwen no
\* chunk is written once the terminal delta was handled, on DeepSeek no text
\* of a line after [DONE] is written.
C21_NothingAfterTerminal ==
    [][\A r \in Req :
          /\ server = "qwen" /\ TerminalProcessed(r)
                => Count(out'[r], IsChunk) = Count(out[r], IsChunk)
          /\ server = "deepseek"
                => \A rid \in DOMAIN turns' :
                      \A i \in 1..Len(Text(out'[r])) :
                          Text(out'[r])[i] \notin TextsAfterDone(rid)']_vars

\* No event of request r's upstream so far is a phase marker or names the
\* thinking phase.
NoPhaseMarkerSeen(r) ==
    IF server = "qwen"
    THEN \A i \in 1..Len(upSent[r]) : ~IsThinkEv(upSent[r][i])
    ELSE \A rid \in DOMAIN turns :
            \A i \in 1..Len(turns[rid].body) : ~IsElapsedEv(turns[rid].body[i])

\* The text X holds a thinking delimiter.
HasDelimiter(X) ==
    \E i \in 1..Len(X) : X[i] \in OpenDelims \cup {CloseDelim}

\* C22: the text events of a stream in which no phase marker has been seen
\* are answer text: the outward text holds them without thinking delimiters.
C22_DefaultPhaseIsAnswer ==
    \A r \in Req : NoPhaseMarkerSeen(r) => ~HasDelimiter(Text(out[r]))

\* The event only signals the phase transition: it carries no text.
IsMarkerOnly(ev) == IsMarkerEv(ev) /\ ev.text = <<>>

\* The data handler processes, in this step, a whole new line of request r's
\* upstream: the line of the last event of upSent'[r].
ProcessesNewLine(r) ==
    /\ server = "qwen"
    /\ Len(upSent'[r]) = Len(upSent[r]) + 1
    /\ upHalf'[r] = "none"

\* C23: an upstream event that only signals a phase transition and carries no
\* text flips the stream's phase flag and writes nothing to the caller.
C23_MarkerWritesNothing ==
    [][\A r \in Req :
          ProcessesNewLine(r) /\ IsMarkerOnly(upSent'[r][Len(upSent'[r])])
             => out'[r] = out[r] /\ ~isInThinkingPhase'[r]]_vars

\* The text fragments of the lines b, in order.
RECURSIVE Fragments(_)
Fragments(b) ==
    IF b = <<>> THEN <<>>
    ELSE (IF IsText(Head(b)) THEN Head(b).text ELSE <<>>) \o Fragments(Tail(b))

\* The text X without the thinking delimiters.
Undelimited(X) == SelectSeq(X, LAMBDA p : p \notin OpenDelims \cup {CloseDelim})

\* The outward stream o replays the body b as one blob: one non-final chunk
\* with the role and the whole decoded content, the chunk with finish_reason
\* "stop", then the sentinel.
ReplaysBlob(o, b) ==
    /\ Len(o) = 3
    /\ IsChunk(o[1]) /\ o[1].hasContent /\ o[1].finish = "null"
    /\ Undelimited(o[1].content) = Fragments(ReadLines(b))
    /\ IsStop(o[2]) /\ ~o[2].hasContent
    /\ o[3] = DoneFrame

\* C24: on the DeepSeek router, which receives the whole turn as one finished
\* body, nothing is written before the body is read, and a stream that has
\* completed without a failure holds exactly the three frames that replay one
\* finished turn, also when the decoded content is empty.
C24_BlobReplayedAsThreeFrames ==
    \A r \in Req :
        server = "deepseek" /\ res[r].sse =>
            /\ res[r].state = "open" => out[r] = <<>>
            /\ StreamCompleted(r) /\ upFail[r] = "none" =>
                  \E rid \in DOMAIN turns :
                      /\ turns[rid].phase = "finished"
                      /\ ReplaysBlob(out[r], turns[rid].body)

\* A stream has completed whose turn's body held lines but no text.
C24_Witness ==
    \E r \in Req, rid \in DOMAIN turns :
        /\ server = "deepseek" /\ StreamCompleted(r) /\ upFail[r] = "none"
        /\ turns[rid].body # <<>>
        /\ ReplaysBlob(out[r], turns[rid].body)
        /\ out[r][1].content = <<>>

\* A line that does not decode: invalid JSON, or JSON with an empty choices
\* array.
IsUndecodable(ev) == ev.t \in {"badjson", "nochoice0"}

\* The frame holds the bytes of a whole line that did not decode.
IsUndecodedBytes(f) ==
    /\ f.kind = "raw"
    /\ f.content \in {<<"data:", "badjson">>, <<"data:", "nochoice0">>}

\* The pieces of the text X, as a set.
Pieces(X) == {X[i] : i \in 1..Len(X)}

\* C25: a decode-level problem never aborts a stream. On Qwen, while no line
\* was cut by the transport, the frames written (the bytes of undecodable
\* lines aside) are the translation of the upstream's other events, as if the
\* undecodable lines had not been sent, and the response stays open until the
\* upstream ends. On DeepSeek a stream that completed without a failure holds
\* every text of a finished turn's lines before [DONE], whatever undecodable
\* lines stand between them, and ends with the stop chunk and [DONE].
C25_DecodeProblemNeverAborts ==
    \A r \in Req :
        /\ server = "qwen" /\ pc[r] = "stream" /\ upSplits = 0 =>
              /\ res[r].state = "open"
              /\ SelectSeq(out[r], LAMBDA f : ~IsUndecodedBytes(f))
                    = OneChunkOut(r, SelectSeq(upSent[r],
                                        LAMBDA ev : ~IsUndecodable(ev)))
        /\ server = "deepseek" /\ StreamCompleted(r) /\ upFail[r] = "none" =>
              /\ \E rid \in DOMAIN turns :
                    /\ turns[rid].phase = "finished"
                    /\ TextsOf(ReadLines(turns[rid].body), IsText)
                          \subseteq Pieces(Text(out[r]))
              /\ Len(out[r]) >= 2
              /\ IsStop(out[r][Len(out[r]) - 1])
              /\ out[r][Len(out[r])] = DoneFrame

\* A stream holds the text of an event that arrived after an undecodable
\* line.
C25_Witness ==
    \E r \in Req :
        LET s == IF server = "qwen" THEN upSent[r]
                 ELSE IF turns = <<>> THEN <<>> ELSE ReadLines(turns[1].body)
        IN /\ server \in {"qwen", "deepseek"}
           /\ server = "qwen" => upSplits = 0
           /\ \E i, j \in 1..Len(s) :
                 /\ i < j
                 /\ IsUndecodable(s[i])
                 /\ s[j].text # <<>>
                 /\ s[j].text[1] \in Pieces(Text(out[r]))

\* C26: in the live router each upstream token is written to the caller at
\* most once, however many Network.dataReceived events one response fires.
C26_LiveTokenAtMostOnce ==
    \A r \in Req :
        server = "live" =>
            LET X == Text(out[r]) IN
            \A i, j \in 1..Len(X) : X[i] \in TokSet /\ X[i] = X[j] => i = j

\* The string values v of the data events of the lines b, in arrival order,
\* each once.
RECURSIVE Values(_)
Values(b) ==
    IF b = <<>> THEN <<>>
    ELSE (IF Head(b).t = "v" /\ Head(b).status = "string"
          THEN Head(b).text ELSE <<>>) \o Values(Tail(b))

\* C27: the message content a non-streaming DeepSeek request returns is the
\* concatenation, in arrival order, of the string values v of one finished
\* turn's data events, each taken once.
C27_ContentIsEachValueOnce ==
    \A r \in Req :
        server = "deepseek" /\ res[r].json = "completion" =>
            \E rid \in DOMAIN turns :
                /\ turns[rid].phase = "finished"
                /\ res[r].content = Values(turns[rid].body)

\* Request r is in flight: it was made and its response has not ended.
InFlight(r) == pc[r] # "idle" /\ res[r].state = "open"

\* C28: whenever no request is in flight on a DeepSeek server, no handler of
\* a request is registered on the shared client.
C28_NoHandlerLeftRegistered ==
    server \in {"deepseek", "live"} /\ (\A r \in Req : ~InFlight(r))
        => onResponse \cup onData \cup onFinished = {}

\* The upstream body of request r ends in this step, and its last line came
\* without a line terminator.
EndsOnOpenLine(r) ==
    /\ server = "qwen"
    /\ pc[r] = "stream" /\ pc'[r] = "done" /\ upFail'[r] = "none"
    /\ upHalf[r] = "whole"

\* C29: a final data line of the Qwen upstream that has no trailing newline
\* is translated as a newline-terminated line is: the end of the body writes
\* the frames the data handler writes for that line.
C29_FinalLineTranslated ==
    [][\A r \in Req :
          EndsOnOpenLine(r) =>
             out'[r] = out[r] \o
                 QwenLine(r, buffer[r],
                          [think |-> isInThinkingPhase[r], w |-> <<>>]).w]_vars

\* The prompt the messages call for: the content of the last message whose
\* role is "user" when that content is not empty, "Hello" otherwise.
ExpectedPrompt(messages) ==
    LET U == IF messages.present /\ messages.isArray
             THEN {i \in 1..Len(messages.items) :
                      messages.items[i].role = "user"}
             ELSE {}
    IN IF U = {} THEN "Hello"
       ELSE LET k == CHOOSE i \in U : \A j \in U : j <= i
            IN IF messages.items[k].content # "" THEN messages.items[k].content
               ELSE "Hello"

\* C30: every request forwards a prompt, and the prompt forwarded to the
\* upstream is the one its messages call for: on Qwen the content of the
\* message in the payload, on the DeepSeek routers the value put into the
\* page's chat input.
C30_PromptIsLastUserMessage ==
    [][\A r \in Req :
          /\ server \in Routers /\ pc[r] = "idle" /\ pc'[r] # "idle" =>
                /\ pc'[r] # "failed"
                /\ server = "qwen" =>
                      payload'[r].content = ExpectedPrompt(req'[r].messages)
          /\ pc[r] = "i_set" /\ pc'[r] = "i_type" =>
                chatInput' = <<ExpectedPrompt(req[r].messages)>>]_vars

\* Request r took the non-streaming branch of the DeepSeek router.
NonStreaming(r) == server = "deepseek" /\ promise[r] # "none"

\* The one answer a non-streaming request has got so far, if it has got one:
\* the completion object of a resolved promise, or the 500 of the handler's
\* catch for a rejected one; nothing was written as a stream, and no answer
\* was given to a response already ended.
AnsweredAsSettled(r) ==
    /\ out[r] = <<>> /\ ~res[r].late
    /\ promise[r] = "pending" => res[r].state = "open"
    /\ promise[r] = "resolved" =>
          /\ res[r].state = "ended" /\ res[r].status = 200
          /\ res[r].json = "completion"
    /\ promise[r] = "rejected" =>
          /\ res[r].state = "ended" /\ res[r].status = 500
          /\ res[r].json = "Internal proxy error"

\* C31: a non-streaming DeepSeek request is answered once, with the
\* completion object or with a 500, and has been answered when its 30-second
\* timer has fired; once the promise of sendPromptToDeepSeek has settled, no
\* loadingFinished event or timer changes it or the response.
C31_AnsweredOnceBeforeTimeout ==
    /\ [](\A r \in Req :
            NonStreaming(r) =>
               /\ AnsweredAsSettled(r)
               /\ r \in timedOut => promise[r] \in {"resolved", "rejected"})
    /\ [][\A r \in Req :
            NonStreaming(r) /\ promise[r] # "pending" =>
               promise'[r] = promise[r] /\ res'[r] = res[r]]_vars

\* The timer of request 1 rejected the promise while getResponseBody was
\* pending, and the loadingFinishedHandler then ran to its resolve.
C31_Witness ==
    /\ NonStreaming(1) /\ 1 \in timedOut /\ isComplete[1]
    /\ promise[1] = "rejected" /\ upFail[1] = "timeout"
    /\ res[1].status = 500

\* The model values the chunks of stream o carry.
ModelValues(o) == {o[i].model : i \in {j \in DOMAIN o : o[j].kind = "chunk"}}

\* C32: the chunks of one outward Qwen stream carry one model value, the
\* model the request names when it names one.
C32_OneModelValue ==
    \A r \in Req :
        server = "qwen" =>
            /\ Cardinality(ModelValues(out[r])) <= 1
            /\ req[r].model # "" => ModelValues(out[r]) \subseteq {req[r].model}

\* Request r completes successfully in this step: its response ends, with
\* status 200.
Completes(r) ==
    res[r].state = "open" /\ res'[r].state = "ended" /\ res'[r].status = 200

\* C33: on the Vercel server the statistics count one more request in every
\* step in which a chat request completes successfully, streaming or not,
\* and no step in which none completes (a failing upstream call or stream
\* among them) changes the statistics.
C33_StatsOncePerCompletion ==
    [][server = "vercel" =>
          LET done == {r \in Req : Completes(r)}
          IN /\ stats'.totalRequests = stats.totalRequests + Cardinality(done)
             /\ done = {} => stats' = stats
             /\ \A r \in done :
                   /\ stats'.requests[1].model = VercelModel(r)
                   /\ stats'.requests[1].inputTokens = InputTokens(r)]_vars

\* A streaming request has completed and been counted, and the stream of
\* the other request failed after its first chunks.
C33_Witness ==
    /\ server = "vercel"
    /\ pc[1] = "done" /\ req[1].stream /\ res[1].state = "ended"
    /\ pc[2] = "failed" /\ upFail[2] = "stream" /\ out[2] # <<>>
    /\ stats.totalRequests = 1

\* C34: the stored log holds the most recent calls of updateStats, at most
\* 100 of them, newest first, and each call increases totalRequests by one.
C34_LogHoldsNewestHundred ==
    /\ [](server = "vercel" =>
            /\ Len(stats.requests) <= MaxLogged
            /\ Len(stats.requests) =
                  (IF statsCalls < MaxLogged THEN statsCalls ELSE MaxLogged)
            /\ \A i \in DOMAIN stats.requests :
                  stats.requests[i].id = statsCalls - i + 1)
    /\ [][statsCalls' # statsCalls =>
            /\ statsCalls' = statsCalls + 1
            /\ stats'.totalRequests = stats.totalRequests + 1]_vars

\* The log was full and a further call was logged: the oldest entry is gone.
C34_Witness ==
    /\ server = "vercel"
    /\ statsCalls = MaxLogged + 1
    /\ Len(stats.requests) = MaxLogged
    /\ stats.requests[MaxLogged].id = 2

\* The sum of field f over the entries of modelUsage.
RECURSIVE SumOver(_, _)
SumOver(modelUsage, S) ==
    IF S = {} THEN [requests |-> 0, tokensSent |-> 0, tokensReceived |-> 0]
    ELSE LET m == CHOOSE x \in S : TRUE
             rest == SumOver(modelUsage, S \ {m})
         IN [requests |-> modelUsage[m].requests + rest.requests,
             tokensSent |-> modelUsage[m].tokensSent + rest.tokensSent,
             tokensReceived |->
                 modelUsage[m].tokensReceived + rest.tokensReceived]

\* C35: from the initial empty statistics on, the global totals are the sums
\* of the per-model entries.
C35_TotalsAreSumsOverModels ==
    server = "vercel" =>
        LET sum == SumOver(stats.modelUsage, DOMAIN stats.modelUsage)
        IN /\ stats.totalRequests = sum.requests
           /\ stats.totalTokensSent = sum.tokensSent
           /\ stats.totalTokensReceived = sum.tokensReceived

\* The chunk frames of stream o, in order.
IsChunkFrame(f) == f.kind = "chunk"
ChunkFrames(o) == SelectSeq(o, IsChunkFrame)

\* The content without the footer and without the newlines put after
\* closing tags.
IsUpstreamPiece(x) == x \notin {tokenMetrics, "\n"}
UpstreamPieces(content) == SelectSeq(content, IsUpstreamPiece)

\* Frame f has the footer: as the last piece of its content, and only there.
HasFooter(f) ==
    /\ f.hasContent /\ f.content # <<>>
    /\ \A i \in DOMAIN f.content :
          f.content[i] = tokenMetrics <=> i = Len(f.content)

\* Frame f is upstream chunk c forwarded: it has c's text and finish_reason,
\* and the footer when, and only when, c carries a finish_reason.
ForwardsChunk(f, c) ==
    /\ UpstreamPieces(f.content) = c.text
    /\ f.finish = (IF c.status = "" THEN "null" ELSE c.status)
    /\ IF c.status # "" THEN HasFooter(f)
       ELSE \A i \in DOMAIN f.content : f.content[i] # tokenMetrics

====
